---------------------------- MODULE Spec2Model ----------------------------
(***************************************************************************)
(* RealtimePlot (src/realtime_plot.py): the windowed buffer of timestamped *)
(* rows, the per-signal series derived from it and the subplot order.      *)
(*                                                                         *)
(* Representation.  A timestamp is a whole number of seconds since the     *)
(* epoch; datetime_to_ms turns it into milliseconds.  max_time_gap_seconds *)
(* is held in milliseconds, so that it can be a fraction of a second and   *)
(* two rows of one window can be a gap apart.  A DataFrame is a            *)
(* record of its columns and its rows in positional order; a row holds     *)
(* its timestamp (NaT in a frame without the timestamp column) and one     *)
(* value per column, NaN where the column has no value for it.  Python's   *)
(* None is the DataFrame NoneDF for the buffer and the value None inside a *)
(* series point.                                                           *)
(***************************************************************************)
EXTENDS Integers, Sequences, FiniteSets, TLC

(***************************************************************************)
(* Bounds of the model.                                                    *)
(***************************************************************************)
\* a chart that holds no data is loaded with a batch of at most MaxLoad rows
MaxLoad == 3
\* a chart that holds data receives batches of at most MaxBatch rows
MaxBatch == 1
\* the row cap of _trim_data_by_window; 2000 in the source, scaled down so
\* that the cap is reached by the batches of the model
max_points == 2
\* the rows of a frame handed to _update_chart_data on its own have the
\* timestamps 0 .. MaxFrameTime, in seconds
MaxFrameTime == 2

(***************************************************************************)
(* Constructor arguments of the RealtimePlot under study.                  *)
(***************************************************************************)
num_signals == 2
\* window_seconds
WindowSeconds == 1
\* max_time_gap_seconds = 0.5, held in milliseconds
MaxTimeGapMs == 500
\* list(self.signal_types.items()): the configured signals, in order
signal_types_list ==
    << [name |-> "mode", type |-> "enum", enum_labels |-> (0 :> "A" @@ 1 :> "B" @@ 2 :> "C" @@ 3 :> "D")] >>

\* the missing value of a DataFrame cell
NaN == -1
\* Python's None inside a series point
None == -2
\* the missing timestamp; it is greater than every timestamp, which is
\* where sort_values puts it (na_position='last')
NaT == 1000000

\* f'signal_{i+1}', for the signal indices of the model
default_names == << "signal_1", "signal_2", "signal_3" >>

\* the name and the configuration of signal i (0-based), as looked up at
\* the head of every per-signal loop
signal_name(i) ==
    IF i < Len(signal_types_list) THEN signal_types_list[i + 1].name
    ELSE default_names[i + 1]

signal_config(i) ==
    IF i < Len(signal_types_list) THEN signal_types_list[i + 1]
    ELSE [name |-> default_names[i + 1], type |-> "numeric", enum_labels |-> << >>]

SignalIdx == 0 .. (num_signals - 1)
SignalCols == { signal_name(i) : i \in SignalIdx }

(***************************************************************************)
(* The state of a RealtimePlot, and the call that produced it.             *)
(***************************************************************************)
VARIABLES
    window_seconds,        \* self.window_seconds
    max_time_gap_seconds,  \* self.max_time_gap_seconds, held in milliseconds
    data_buffer,           \* self._data_buffer: NoneDF or a DataFrame
    option,                \* self.option
    subplot_order,         \* self.subplot_order: display position -> signal index
    last_call,             \* the last call made: its name, whether its batch was
                           \* empty, whether it raised
    returned,              \* the table the caller holds from get_buffered_data,
                           \* and whether it is the buffer's own object
    is_running,            \* is_running of main.py, self.is_running of
                           \* DynamicChartApp; on the test page, whether the
                           \* start button is disabled and stop enabled
    update_timer,          \* update_timer of main.py, self.timer of
                           \* DynamicChartApp, timer of the test page: 0 for
                           \* None, else the timer
    timers,                \* the periodic ui.timer objects created so far:
                           \* the `active` flag of each
    counter,               \* the number of rows generated so far
                           \* (DataGenerator.counter, data_point_count); on
                           \* the test page counter[0], the batches added
    data_history,          \* DynamicChartApp.data_history
    js_initialized,        \* RealtimeChartWidget._js_initialized
    deferred,              \* the once-timers that have not fired yet: those
                           \* of on_chart_tab_click and of ensure_initialized
    js_runs,               \* how many times _do_initialize has run its
                           \* JavaScript
    chart_widget           \* EChartWidget.chart_widget: realtime_plot, the
                           \* RealtimePlot that the sidebar moves, and chart,
                           \* the option that the renderer holds

\* the state of the pages around the plot
page == << is_running, update_timer, timers, counter, data_history,
           js_initialized, deferred, js_runs >>

\* the state of the applications around the plot
app == << page, chart_widget >>

vars == << window_seconds, max_time_gap_seconds, data_buffer, option,
           subplot_order, last_call, returned, app >>

config == << window_seconds, max_time_gap_seconds >>

(***************************************************************************)
(* DataFrames.                                                             *)
(***************************************************************************)
\* a frame with the timestamp column and the columns cols
DataFrame(cols, rows) ==
    [is_none |-> FALSE, columns |-> cols \cup {"timestamp"}, rows |-> rows]
NoneDF == [is_none |-> TRUE, columns |-> {}, rows |-> << >>]

\* df.empty
df_empty(df) == Len(df.rows) = 0

\* df.copy()
df_copy(df) == [is_none |-> FALSE, columns |-> df.columns, rows |-> df.rows]

\* the ascending sequence of the elements of a finite set of integers
RECURSIVE SortedSeq(_)
SortedSeq(S) ==
    IF S = {} THEN << >>
    ELSE LET m == CHOOSE x \in S : \A y \in S : x <= y
         IN  << m >> \o SortedSeq(S \ {m})

SetMax(S) == CHOOSE x \in S : \A y \in S : y <= x

\* the timestamps of the rows; max() and the comparisons skip NaT
Timestamps(rows) == { rows[k].timestamp : k \in 1 .. Len(rows) } \ {NaT}

\* the rows over the columns cols: NaN in a column a row did not have
reindex(rows, cols) ==
    IF \A k \in 1 .. Len(rows) : (cols \ {"timestamp"}) \subseteq DOMAIN rows[k].vals
    THEN rows
    ELSE [k \in 1 .. Len(rows) |->
            [rows[k] EXCEPT !.vals =
                [c \in (DOMAIN rows[k].vals) \cup (cols \ {"timestamp"}) |->
                    IF c \in DOMAIN rows[k].vals THEN rows[k].vals[c] ELSE NaN]]]

\* pd.concat([a, b], ignore_index=True): the rows of a then those of b, over
\* the union of the columns
pd_concat(a, b) ==
    [is_none |-> FALSE, columns |-> a.columns \cup b.columns,
     rows    |-> reindex(a.rows \o b.rows, a.columns \cup b.columns)]

\* the sequences obtained by inserting r into the timestamp-sorted sequence s
\* at a place that keeps it sorted
InsertSorted(s, r) ==
    { SubSeq(s, 1, k) \o << r >> \o SubSeq(s, k + 1, Len(s)) :
        k \in { j \in 0 .. Len(s) :
                  /\ \A a \in 1 .. j : s[a].timestamp <= r.timestamp
                  /\ \A a \in (j + 1) .. Len(s) : r.timestamp <= s[a].timestamp } }

\* df.sort_values('timestamp').reset_index(drop=True): the default sort is
\* not stable, so every timestamp-ordered permutation of the rows is a
\* possible outcome
RECURSIVE sort_values(_)
sort_values(rows) ==
    IF rows = << >> THEN { << >> }
    ELSE UNION { InsertSorted(s, Head(rows)) : s \in sort_values(Tail(rows)) }

\* df.tail(n)
tail(rows, n) ==
    IF Len(rows) > n THEN SubSeq(rows, Len(rows) - n + 1, Len(rows)) ELSE rows

\* the body of _trim_data_by_window on a plot whose window_seconds is
\* `window`; a comparison with NaT is False, and so is every comparison when
\* no row has a timestamp
trim_by_window(df, window) ==
    IF df_empty(df) \/ "timestamp" \notin df.columns THEN df
    ELSE IF Timestamps(df.rows) = {} THEN DataFrame(df.columns, << >>)
    ELSE LET latest_time == SetMax(Timestamps(df.rows))
             cutoff_time == latest_time - window
             trimmed     == SelectSeq(df.rows, LAMBDA r :
                                r.timestamp # NaT /\ r.timestamp >= cutoff_time)
         IN  DataFrame(df.columns,
                       IF Len(trimmed) > max_points THEN tail(trimmed, max_points)
                       ELSE trimmed)

\* _trim_data_by_window without the window filter: only the cap is applied
trim_without_window(df) ==
    IF df_empty(df) THEN df
    ELSE DataFrame(df.columns,
                   IF Len(df.rows) > max_points THEN tail(df.rows, max_points)
                   ELSE df.rows)

\* _trim_data_by_window with the window added to the newest timestamp
\* instead of subtracted from it
trim_sign_error(df) ==
    IF df_empty(df) THEN df
    ELSE LET latest_time == SetMax(Timestamps(df.rows))
             cutoff_time == latest_time + window_seconds
             trimmed     == SelectSeq(df.rows, LAMBDA r : r.timestamp >= cutoff_time)
         IN  DataFrame(df.columns,
                       IF Len(trimmed) > max_points THEN tail(trimmed, max_points)
                       ELSE trimmed)

\* RealtimePlot._trim_data_by_window
trim_data_by_window(df) == trim_by_window(df, window_seconds)


(***************************************************************************)
(* The chart option.  series and title are indexed by array position       *)
(* 1..num_signals (the display position + 1), grid, xAxis and yAxis by     *)
(* signal index.                                                           *)
(***************************************************************************)
\* the y axis of signal i as _create_option builds it
create_y_axis(i) ==
    LET cfg == signal_config(i) IN
    IF cfg.type = "enum"
    THEN LET enum_values == SortedSeq(DOMAIN cfg.enum_labels)
         IN  [type |-> "category", gridIndex |-> i,
              data |-> [k \in 1 .. Len(enum_values) |-> cfg.enum_labels[enum_values[k]]],
              actual_values |-> << >>, has_min_max |-> FALSE, min |-> 0, max |-> 0]
    ELSE [type |-> "value", gridIndex |-> i, data |-> << >>,
          actual_values |-> << >>, has_min_max |-> FALSE, min |-> 0, max |-> 0]

\* the constants of the layout computed at the head of _create_option
min_chart_height == 85
chart_spacing == 2
available_height == 800
top_bottom_padding == 80

Max(a, b) == IF a >= b THEN a ELSE b

\* the per-subplot height without the floor of min_chart_height
ideal_height_only(n) ==
    (available_height - top_bottom_padding - chart_spacing * (n + 1)) \div n

\* chart_height_per_signal for a chart of n signals; ideal_height is a
\* positive float for every n up to 100, on which int() is the floor
chart_height_per_signal(n) ==
    LET ideal_height == (available_height - top_bottom_padding - chart_spacing * (n + 1)) \div n
    IN  IF n > 10 THEN min_chart_height ELSE Max(min_chart_height, ideal_height)

\* total_height for a chart of n signals
total_height(n) ==
    chart_height_per_signal(n) * n + chart_spacing * (n + 1) + top_bottom_padding

\* the grid placed by the signal index instead of the display position
create_grid_by_index(n, order, i) ==
    LET h == chart_height_per_signal(n) IN
    [top    |-> chart_spacing + i * (h + chart_spacing) + 30,
     height |-> IF h >= 100 THEN h - 25 ELSE h - 20,
     show   |-> TRUE,
     backgroundColor |-> IF i % 2 = 1 THEN "#fafafa" ELSE "#f2f2f2"]

\* the grid of signal i as _create_option builds it for a chart of n signals
\* shown in the order `order`
create_grid(n, order, i) ==
    LET display_pos == (CHOOSE p \in 1 .. Len(order) : order[p] = i) - 1
        h           == chart_height_per_signal(n)
    IN  [top    |-> chart_spacing + display_pos * (h + chart_spacing) + 30,
         height |-> IF h >= 100 THEN h - 25 ELSE h - 20,
         show   |-> TRUE,
         backgroundColor |-> IF display_pos % 2 = 1 THEN "#fafafa" ELSE "#f2f2f2"]

\* f'Signal {original_idx+1}', for the signal indices of the model
default_display_names == << "Signal 1", "Signal 2", "Signal 3" >>

\* the title at array position p (display position p - 1) as _create_option
\* builds it
create_title(n, order, p) ==
    LET original_idx == order[p]
        h            == chart_height_per_signal(n)
        top          == chart_spacing + (p - 1) * (h + chart_spacing) + 30
        title_offset == IF h >= 100 THEN 22 ELSE 18
    IN  [text |-> IF original_idx < Len(signal_types_list)
                  THEN signal_types_list[original_idx + 1].name
                  ELSE default_display_names[original_idx + 1],
         top  |-> top - title_offset]

\* the x axis showing the axis of the signal displayed first
create_x_axis_first(order, i) ==
    LET is_first == (order[1] = i) IN
    [type |-> "time", gridIndex |-> i, show |-> is_first,
     axisTick |-> [show |-> is_first], axisLabel |-> [show |-> is_first]]

\* the x axis of signal i as _create_option builds it: only the axis of the
\* signal displayed last is shown
create_x_axis(order, i) ==
    LET is_last == (order[Len(order)] = i) IN
    [type |-> "time", gridIndex |-> i, show |-> is_last,
     axisTick |-> [show |-> is_last], axisLabel |-> [show |-> is_last]]

\* a series that carries the id of signal 0 whatever signal it is built for
create_series_one_id(original_idx) ==
    [id |-> 0, xAxisIndex |-> original_idx, yAxisIndex |-> original_idx,
     data |-> << >>, showSymbol |-> TRUE, symbolSize |-> 6]

\* the series of signal original_idx as _create_option builds it
create_series(original_idx) ==
    [id |-> original_idx, xAxisIndex |-> original_idx, yAxisIndex |-> original_idx,
     data |-> << >>, showSymbol |-> TRUE, symbolSize |-> 6]

\* RealtimePlot._create_option, for the subplot order `order`: the layout
\* and the fields that _update_chart_data and clear_data write (dataZoom is
\* dataZoom[0])
create_option(order) ==
    [grid     |-> [i \in SignalIdx |-> create_grid(num_signals, order, i)],
     xAxis    |-> [i \in SignalIdx |-> create_x_axis(order, i)],
     yAxis    |-> [i \in SignalIdx |-> create_y_axis(i)],
     series   |-> [p \in 1 .. Len(order) |-> create_series(order[p])],
     title    |-> [p \in 1 .. Len(order) |-> create_title(num_signals, order, p)],
     height   |-> total_height(num_signals),
     dataZoom |-> [start |-> 0, end |-> 100]]

\* datetime_to_ms
datetime_to_ms(x) == x * 1000

\* valid_data: one [ts, value] point per row in which the column has a value
valid_data(rows, name) ==
    LET kept == SelectSeq(rows, LAMBDA r : r.vals[name] # NaN)
    IN  [k \in 1 .. Len(kept) |->
            << datetime_to_ms(kept[k].timestamp), kept[k].vals[name] >>]

\* the same loop breaking the line also at a gap of exactly max_gap_ms
RECURSIVE gap_loop_inclusive(_, _, _)
gap_loop_inclusive(valid, lo, hi) ==
    IF lo > hi THEN << >>
    ELSE IF lo = hi
    THEN LET max_gap_ms == max_time_gap_seconds IN
         << valid[lo] >>
         \o (IF lo < Len(valid) /\ valid[lo + 1][1] - valid[lo][1] >= max_gap_ms
             THEN << << valid[lo + 1][1], None >> >>
             ELSE << >>)
    ELSE LET mid == (lo + hi) \div 2
         IN  gap_loop_inclusive(valid, lo, mid) \o gap_loop_inclusive(valid, mid + 1, hi)

\* the loop that copies valid_data and puts a null point before a point
\* that follows its predecessor by more than max_gap_ms: what its
\* iterations j = lo .. hi append (the 1-based j is the loop's j + 1); the
\* range is halved so that a long series is evaluated at a small depth
RECURSIVE gap_loop(_, _, _)
gap_loop(valid, lo, hi) ==
    IF lo > hi THEN << >>
    ELSE IF lo = hi
    THEN LET max_gap_ms == max_time_gap_seconds IN
         << valid[lo] >>
         \o (IF lo < Len(valid) /\ valid[lo + 1][1] - valid[lo][1] > max_gap_ms
             THEN << << valid[lo + 1][1], None >> >>
             ELSE << >>)
    ELSE LET mid == (lo + hi) \div 2
         IN  gap_loop(valid, lo, mid) \o gap_loop(valid, mid + 1, hi)

\* the data of a series before the enum remapping
gap_data(valid) ==
    IF Len(valid) > 1 /\ max_time_gap_seconds > 0
    THEN gap_loop(valid, 1, Len(valid)) ELSE valid

\* the labelled codes that occur in data, ascending (sorted_values); the
\* values of the model are whole numbers, on which int(round(val)) is val
sorted_values(data, enum_labels) ==
    SortedSeq({ data[k][2] : k \in { j \in 1 .. Len(data) : data[j][2] # None } }
              \cap DOMAIN enum_labels)

\* the position of code v in sorted, 0-based (value_to_index)
value_to_index(sorted, v) == (CHOOSE k \in 1 .. Len(sorted) : sorted[k] = v) - 1

\* remapped_data: nulls kept, labelled codes rewritten, other points dropped
remapped_data(data, sorted) ==
    LET kept == SelectSeq(data, LAMBDA pt :
                    pt[2] = None \/ \E k \in 1 .. Len(sorted) : sorted[k] = pt[2])
    IN  [k \in 1 .. Len(kept) |->
            IF kept[k][2] = None THEN kept[k]
            ELSE << kept[k][1], value_to_index(sorted, kept[k][2]) >>]

\* the symbol policy hiding the symbols from 150 entries on
show_symbol_inclusive(n) == ~ (n >= 150)

\* the symbol policy for a series of n entries
show_symbol(n) == ~ (n > 150)
symbol_size(n) == IF n > 50 THEN 4 ELSE 6

\* the same loop body skipping a frame that has a column which is neither
\* the timestamp nor a signal of the chart
update_series_known_only(opt, order, df, p) ==
    LET i    == order[p]
        cfg  == signal_config(i)
        name == signal_name(i)
        data == gap_data(valid_data(df.rows, name))
        srt  == sorted_values(data, cfg.enum_labels)
        cur  == IF cfg.type = "enum" /\ Len(data) > 0 /\ Len(srt) > 0
                THEN remapped_data(data, srt) ELSE data
    IN  IF name \in df.columns /\ df.columns \subseteq SignalCols \cup {"timestamp"}
        THEN [opt.series[p] EXCEPT !.data = cur,
                                   !.showSymbol = show_symbol(Len(cur)),
                                   !.symbolSize = symbol_size(Len(cur))]
        ELSE opt.series[p]

\* the body of the per-signal loop of _update_chart_data for the series at
\* position p: the series it leaves
update_series(opt, order, df, p) ==
    LET i    == order[p]
        cfg  == signal_config(i)
        name == signal_name(i)
        data == gap_data(valid_data(df.rows, name))
        srt  == sorted_values(data, cfg.enum_labels)
        cur  == IF cfg.type = "enum" /\ Len(data) > 0 /\ Len(srt) > 0
                THEN remapped_data(data, srt) ELSE data
    IN  IF name \in df.columns
        THEN [opt.series[p] EXCEPT !.data = cur,
                                   !.showSymbol = show_symbol(Len(cur)),
                                   !.symbolSize = symbol_size(Len(cur))]
        ELSE opt.series[p]

\* the same loop body: the y axis of signal i it leaves
update_y_axis(opt, df, i) ==
    LET cfg  == signal_config(i)
        name == signal_name(i)
        data == gap_data(valid_data(df.rows, name))
        srt  == sorted_values(data, cfg.enum_labels)
    IN  IF name \in df.columns /\ cfg.type = "enum" /\ Len(data) > 0 /\ Len(srt) > 0
        THEN [opt.yAxis[i] EXCEPT
                !.data = [k \in 1 .. Len(srt) |-> cfg.enum_labels[srt[k]]],
                !.actual_values = srt,
                !.has_min_max = TRUE,
                !.min = 0,
                !.max = IF Len(srt) > 1 THEN Len(srt) - 1 ELSE 0]
        ELSE opt.yAxis[i]

\* the dataZoom update at the end of _update_chart_data on a plot whose
\* window_seconds is `window`; the start percentage is a float in the source
\* and is rounded down here
update_data_zoom(opt, df, window) ==
    LET min_time    == datetime_to_ms(df.rows[1].timestamp)
        max_time    == datetime_to_ms(df.rows[Len(df.rows)].timestamp)
        total_range == max_time - min_time
        window_ms   == window * 1000
    IN  IF total_range > 0 /\ total_range > window_ms
        THEN [start |-> ((total_range - window_ms) * 100) \div total_range, end |-> 100]
        ELSE opt.dataZoom

\* _update_chart_data raises KeyError at df['timestamp'] when it is given
\* rows without the timestamp column
key_error(df) == ~ df_empty(df) /\ "timestamp" \notin df.columns

\* the body of _update_chart_data on a plot whose window_seconds is
\* `window`: the option it leaves; the KeyError is raised before anything
\* is written
chart_data(opt, order, df, window) ==
    IF df_empty(df) \/ key_error(df) THEN opt
    ELSE [opt EXCEPT
            !.series   = [p \in 1 .. Len(order) |-> update_series(opt, order, df, p)],
            !.yAxis    = [i \in SignalIdx |-> update_y_axis(opt, df, i)],
            !.dataZoom = update_data_zoom(opt, df, window)]

\* RealtimePlot._update_chart_data: the option it leaves
update_chart_data(opt, order, df) == chart_data(opt, order, df, window_seconds)

\* the record of a call: its name, whether its batch was empty, whether it
\* raised, and whether its batch had rows but no timestamp column
Call(op, df, raised) ==
    [op |-> op, empty |-> df_empty(df), raised |-> raised,
     malformed |-> ~ df_empty(df) /\ "timestamp" \notin df.columns]

\* a table in the hands of the caller: its content, and whether it is the
\* very object self._data_buffer is bound to (a change made to it in place
\* is then a change of the buffer)
Table(df, shared) == [df |-> df, shared |-> shared]

\* the caller's table once self._data_buffer is bound to a new object
rebound(t) == [t EXCEPT !.shared = FALSE]

(***************************************************************************)
(* The inputs of the calls.                                                *)
(***************************************************************************)
\* the timestamps of input rows, in seconds: one second more than the window,
\* so that a row can be in the window of another, at its edge or out of it
MaxTime == WindowSeconds + 1
\* the value a batch carries in a column it has
BatchValues == {1}
\* the signal columns of a batch: signals are sampled independently, so a
\* batch carries the column of one signal
ColSets == { {c} : c \in SignalCols }

RowsFor(cols) ==
    { [timestamp |-> t, vals |-> v] :
        t \in 0 .. MaxTime,
        v \in { f \in [SignalCols -> BatchValues \cup {NaN}] :
                  \A c \in SignalCols : (f[c] = NaN) <=> (c \notin cols) } }

SeqsUpTo(S, n) == UNION { [1 .. k -> S] : k \in 0 .. n }

BatchesUpTo(n) ==
    UNION { { DataFrame(cols, rows) : rows \in SeqsUpTo(RowsFor(cols), n) } :
            cols \in ColSets }

\* the history a chart without data is loaded with, and the batches that
\* are streamed to a chart that holds data
LoadBatches == BatchesUpTo(MaxLoad)
StreamBatches == BatchesUpTo(MaxBatch)

\* the batches a call is tried with in a state whose buffer is buf
Batches(buf) == IF buf.is_none THEN LoadBatches ELSE StreamBatches

\* the thresholds a chart is built with, in milliseconds: none, half a
\* second, one second
GapInputs == {0, 500, 1000}

\* the readings of a frame: a code of the enum signal that has a label and
\* one that has none
FrameCodes == {1, 9}

\* a row in which every signal has the reading v, or every signal none (NaN)
FrameRow(t, v) == [timestamp |-> t, vals |-> [c \in SignalCols |-> v]]

\* the frame with one row at each time of S, ascending, with the readings g
FrameOf(S, g) ==
    LET times == SortedSeq(S)
    IN  DataFrame(SignalCols, [k \in 1 .. Len(times) |-> FrameRow(times[k], g[times[k]])])

\* the frames with at most one row per second and any readings
ShortFrames ==
    UNION { { FrameOf(S, g) : g \in [S -> FrameCodes \cup {NaN}] } :
            S \in SUBSET (0 .. MaxFrameTime) }

\* the lengths of the long frames, around the thresholds of the symbol
\* policy: a frame of n rows gives a series of n entries, or of 2n - 1 when
\* every row is a gap after the one before
DensityLens == {25, 26, 50, 51, 75, 76, 150, 151}

\* the frame of n rows, one per second: the enum signals are sampled every
\* other second, the numeric ones every second, and all read 1
LongFrame(n) ==
    DataFrame(SignalCols,
              [k \in 1 .. n |->
                 [timestamp |-> k - 1,
                  vals |-> [c \in SignalCols |->
                              IF c = "mode" /\ (k - 1) % 2 = 1 THEN NaN ELSE 1]]])

\* rows at 0, 1, 2 and 10 s, every signal reading 1
GapExample ==
    DataFrame(SignalCols,
              << FrameRow(0, 1), FrameRow(1, 1), FrameRow(2, 1), FrameRow(10, 1) >>)

TransformFrames ==
    ShortFrames \cup { LongFrame(n) : n \in DensityLens } \cup { GapExample }

range_order == [p \in 1 .. num_signals |-> p - 1]

Range(s) == { s[k] : k \in 1 .. Len(s) }

\* the arguments tried for set_subplot_order: the permutations, and a list
\* of a wrong length, one with a duplicate and one with an index out of range
OrderInputs ==
    { o \in [1 .. num_signals -> SignalIdx] : Range(o) = SignalIdx }
    \cup { SubSeq(range_order, 1, num_signals - 1),
           [range_order EXCEPT ![num_signals] = 0],
           [range_order EXCEPT ![num_signals] = num_signals] }

IndexInputs == (0 - 1) .. num_signals

\* self.subplot_order.index(i), 0-based
order_index(order, i) == (CHOOSE p \in 1 .. Len(order) : order[p] = i) - 1

swap(order, a, b) == [order EXCEPT ![a] = order[b], ![b] = order[a]]

(***************************************************************************)
(* The calls.                                                              *)
(***************************************************************************)
\* the applications before any click: nothing runs, no timer exists, no
\* history is recorded, the JavaScript of the chart widget has not run
\* a chart that is not shown by an EChartWidget
NoChartWidget == [is_none |-> TRUE]

InitPage ==
    /\ is_running = FALSE
    /\ update_timer = 0
    /\ timers = << >>
    /\ counter = 0
    /\ data_history = NoneDF
    /\ js_initialized = FALSE
    /\ deferred = [tab |-> 0, init |-> 0]
    /\ js_runs = 0

InitApp ==
    /\ InitPage
    /\ chart_widget = NoChartWidget

Init ==
    /\ window_seconds = WindowSeconds
    /\ max_time_gap_seconds = MaxTimeGapMs
    /\ subplot_order = range_order
    /\ option = create_option(range_order)
    /\ data_buffer = NoneDF
    /\ last_call = Call("init", NoneDF, FALSE)
    /\ returned = Table(NoneDF, FALSE)
    /\ InitApp

\* update_data without its early return on an empty batch
update_data_no_guard(buf, opt, order, df) ==
    [data_buffer |-> df_copy(df),
     option      |-> update_chart_data(opt, order, trim_data_by_window(df_copy(df))),
     raised      |-> key_error(trim_data_by_window(df_copy(df)))]

\* RealtimePlot.update_data: the buffer and the option it leaves
update_data_effect(buf, opt, order, df) ==
    IF df_empty(df) THEN [data_buffer |-> buf, option |-> opt, raised |-> FALSE]
    ELSE [data_buffer |-> df_copy(df),
          option      |-> update_chart_data(opt, order, trim_data_by_window(df_copy(df))),
          raised      |-> key_error(trim_data_by_window(df_copy(df)))]

update_data(df) ==
    LET e == update_data_effect(data_buffer, option, subplot_order, df) IN
    /\ data_buffer' = e.data_buffer
    /\ option' = e.option
    /\ UNCHANGED << subplot_order, config, app >>
    /\ returned' = IF df_empty(df) THEN returned ELSE rebound(returned)
    /\ last_call' = Call("update_data", df, e.raised)

\* the rows of a timestamp-sorted sequence without those whose timestamp
\* equals that of the row before them (drop_duplicates('timestamp'))
RECURSIVE drop_duplicates(_)
drop_duplicates(rows) ==
    IF Len(rows) <= 1 THEN rows
    ELSE LET rest == drop_duplicates(Tail(rows))
         IN  IF Head(rows).timestamp = Head(rest).timestamp
             THEN << Head(rows) >> \o Tail(rest)
             ELSE << Head(rows) >> \o rest

\* the merge of append_data, joining the rows of equal timestamps
merged_buffers_dedup(buf, df) ==
    IF buf.is_none \/ df_empty(buf) THEN { df_copy(df) }
    ELSE { DataFrame(pd_concat(buf, df).columns, drop_duplicates(s)) :
             s \in sort_values(pd_concat(buf, df).rows) }

\* the buffer of append_data before trimming: the batch itself when the
\* buffer is None or empty, else any sort of the concatenation
merged_buffers(buf, df) ==
    IF buf.is_none \/ df_empty(buf) THEN { df_copy(df) }
    ELSE { DataFrame(pd_concat(buf, df).columns, s) :
             s \in sort_values(pd_concat(buf, df).rows) }

\* RealtimePlot.append_data: the buffers and options it can leave.  When
\* neither the buffer nor the batch has the timestamp column, sort_values
\* raises KeyError after the concatenation has been assigned to the buffer
append_data_effects(buf, opt, order, df) ==
    IF df_empty(df) THEN { [data_buffer |-> buf, option |-> opt, raised |-> FALSE] }
    ELSE IF /\ ~ (buf.is_none \/ df_empty(buf))
            /\ "timestamp" \notin pd_concat(buf, df).columns
    THEN { [data_buffer |-> pd_concat(buf, df), option |-> opt, raised |-> TRUE] }
    ELSE { LET trimmed_df == trim_data_by_window(m)
           IN  [data_buffer |-> trimmed_df,
                option      |-> update_chart_data(opt, order, trimmed_df),
                raised      |-> key_error(trimmed_df)] :
             m \in merged_buffers(buf, df) }

append_data(df) ==
    \E e \in append_data_effects(data_buffer, option, subplot_order, df) :
        /\ data_buffer' = e.data_buffer
        /\ option' = e.option
        /\ UNCHANGED << subplot_order, config, app >>
        /\ returned' = IF df_empty(df) THEN returned ELSE rebound(returned)
        /\ last_call' = Call("append_data", df, e.raised)

\* clear_data emptying the series of the configured signals only
clear_configured_series(opt) ==
    [opt EXCEPT !.series = [p \in 1 .. num_signals |->
        IF p <= Len(signal_types_list) THEN [opt.series[p] EXCEPT !.data = << >>]
        ELSE opt.series[p]]]

\* RealtimePlot.clear_data: the option it leaves
clear_series(opt) ==
    [opt EXCEPT !.series = [p \in 1 .. num_signals |-> [opt.series[p] EXCEPT !.data = << >>]]]

clear_data ==
    /\ data_buffer' = NoneDF
    /\ option' = clear_series(option)
    /\ UNCHANGED << subplot_order, config, app >>
    /\ returned' = rebound(returned)
    /\ last_call' = Call("clear_data", NoneDF, FALSE)

\* the tail of the three reorder calls: the option is rebuilt for the new
\* order and, when there is data, filled from the trimmed buffer
rebuild_option(buf, order) ==
    IF ~ buf.is_none /\ ~ df_empty(buf)
    THEN update_chart_data(create_option(order), order, trim_data_by_window(buf))
    ELSE create_option(order)

\* the checks of set_subplot_order without the comparison of the index sets
valid_order_length_only(new_order) == Len(new_order) = num_signals

\* the checks at the head of set_subplot_order
valid_order(new_order) ==
    /\ Len(new_order) = num_signals
    /\ Range(new_order) = SignalIdx

\* set_subplot_order assigning the order before it checks it
set_subplot_order_late_check(new_order) ==
    /\ subplot_order' = new_order
    /\ option' = IF valid_order(new_order)
                 THEN rebuild_option(data_buffer, new_order) ELSE option
    /\ UNCHANGED << data_buffer, config, returned, app >>
    /\ last_call' = Call("set_subplot_order", NoneDF, ~ valid_order(new_order))

\* self.subplot_order.index(i) in _create_option finds every signal
has_every_index(order) == SignalIdx \subseteq Range(order)

\* RealtimePlot.set_subplot_order; _create_option runs after the order has
\* been assigned and raises ValueError for an order that lacks an index
set_subplot_order(new_order) ==
    /\ IF valid_order(new_order)
       THEN /\ subplot_order' = new_order
            /\ option' = IF has_every_index(new_order)
                         THEN rebuild_option(data_buffer, new_order) ELSE option
       ELSE UNCHANGED << subplot_order, option >>
    /\ UNCHANGED << data_buffer, config, returned, app >>
    /\ last_call' = Call("set_subplot_order", NoneDF,
                         ~ valid_order(new_order) \/ ~ has_every_index(new_order))

\* RealtimePlot.move_subplot_up: the order it leaves for a valid index
\* the order after moving index to the top of the chart
move_up_to_top(order, index) ==
    LET current_pos == order_index(order, index) IN
    IF current_pos = 0 THEN order
    ELSE swap(order, current_pos + 1, 1)

move_up_order(order, index) ==
    LET current_pos == order_index(order, index) IN
    IF current_pos = 0 THEN order
    ELSE swap(order, current_pos + 1, current_pos)

\* RealtimePlot.move_subplot_down: the order it leaves for a valid index
move_down_order(order, index) ==
    LET current_pos == order_index(order, index) IN
    IF current_pos = Len(order) - 1 THEN order
    ELSE swap(order, current_pos + 1, current_pos + 2)

move_subplot_up(index) ==
    /\ IF index < 0 \/ index >= num_signals
       THEN UNCHANGED << subplot_order, option >>
       ELSE IF order_index(subplot_order, index) = 0
            THEN UNCHANGED << subplot_order, option >>
            ELSE /\ subplot_order' = move_up_order(subplot_order, index)
                 /\ option' = rebuild_option(data_buffer, move_up_order(subplot_order, index))
    /\ UNCHANGED << data_buffer, config, returned, app >>
    /\ last_call' = Call("move_subplot_up", NoneDF, index < 0 \/ index >= num_signals)

move_subplot_down(index) ==
    /\ IF index < 0 \/ index >= num_signals
       THEN UNCHANGED << subplot_order, option >>
       ELSE IF order_index(subplot_order, index) = Len(subplot_order) - 1
            THEN UNCHANGED << subplot_order, option >>
            ELSE /\ subplot_order' = move_down_order(subplot_order, index)
                 /\ option' = rebuild_option(data_buffer, move_down_order(subplot_order, index))
    /\ UNCHANGED << data_buffer, config, returned, app >>
    /\ last_call' = Call("move_subplot_down", NoneDF, index < 0 \/ index >= num_signals)

\* get_buffered_data handing out the buffer itself instead of a copy of it
get_buffered_data_no_copy(buf) ==
    IF ~ buf.is_none THEN Table(buf, TRUE) ELSE Table(NoneDF, FALSE)

\* RealtimePlot.get_buffered_data: the table it returns
get_buffered_data_result(buf) ==
    IF ~ buf.is_none THEN Table(df_copy(buf), FALSE) ELSE Table(NoneDF, FALSE)

get_buffered_data ==
    /\ returned' = get_buffered_data_result(data_buffer)
    /\ UNCHANGED << data_buffer, option, subplot_order, config, app >>
    /\ last_call' = Call("get_buffered_data", NoneDF, FALSE)

\* the changes a caller makes in place to a table it holds: its first row
\* dropped, or the values of its first row overwritten with NaN
InPlaceChanges(df) ==
    IF df.is_none \/ df_empty(df) THEN {}
    ELSE { DataFrame(df.columns, Tail(df.rows)),
           DataFrame(df.columns,
                     [df.rows EXCEPT ![1].vals = [c \in SignalCols |-> NaN]]) }

\* the caller changes in place the table get_buffered_data returned to it;
\* the buffer changes with it exactly when the two are one object
caller_mutates(m) ==
    /\ ~ returned.df.is_none
    /\ ~ df_empty(returned.df)
    /\ m \in InPlaceChanges(returned.df)
    /\ returned' = [returned EXCEPT !.df = m]
    /\ data_buffer' = IF returned.shared THEN m ELSE data_buffer
    /\ UNCHANGED << option, subplot_order, config, app >>
    /\ last_call' = Call("caller_mutates", m, FALSE)

\* a caller that loads a new chart, takes snapshots of its buffer, changes
\* them in place and moves subplots, which rebuilds the series from the buffer
NextSnapshot ==
    \/ data_buffer.is_none /\ \E df \in Batches(data_buffer) : update_data(df)
    \/ data_buffer.is_none /\ \E df \in Batches(data_buffer) : append_data(df)
    \/ get_buffered_data
    \/ \E m \in InPlaceChanges(returned.df) : caller_mutates(m)
    \/ \E index \in IndexInputs : move_subplot_down(index)

\* a chart as constructed with the threshold max_gap
InitTransform ==
    /\ window_seconds = WindowSeconds
    /\ max_time_gap_seconds \in GapInputs
    /\ subplot_order = range_order
    /\ option = create_option(range_order)
    /\ data_buffer = NoneDF
    /\ last_call = Call("init", NoneDF, FALSE)
    /\ returned = Table(NoneDF, FALSE)
    /\ InitApp

\* RealtimePlot._update_chart_data on its own, applied to a frame df as
\* update_data, append_data and the reorders apply it to the trimmed
\* buffer; the call is recorded with its frame
update_chart_data_call(df) ==
    /\ option' = update_chart_data(option, subplot_order, df)
    /\ UNCHANGED << data_buffer, subplot_order, config, returned, app >>
    /\ last_call' = [op |-> "_update_chart_data", empty |-> df_empty(df),
                     raised |-> FALSE, malformed |-> FALSE, df |-> df]

NextTransform ==
    \E df \in TransformFrames : update_chart_data_call(df)

\* the calls that assign the buffer
NextData ==
    \/ \E df \in Batches(data_buffer) : update_data(df)
    \/ \E df \in Batches(data_buffer) : append_data(df)
    \/ clear_data

\* every call
Next ==
    \/ \E df \in Batches(data_buffer) : update_data(df)
    \/ \E df \in Batches(data_buffer) : append_data(df)
    \/ clear_data
    \/ \E new_order \in OrderInputs : set_subplot_order(new_order)
    \/ \E index \in IndexInputs : move_subplot_up(index)
    \/ \E index \in IndexInputs : move_subplot_down(index)

Spec == Init /\ [][Next]_vars

SpecData == Init /\ [][NextData]_vars

SpecSnapshot == Init /\ [][NextSnapshot]_vars

SpecTransform == InitTransform /\ [][NextTransform]_vars

(***************************************************************************)
(* Properties of the windowed buffer.                                      *)
(***************************************************************************)
Populated(buf) == ~ buf.is_none /\ Len(buf.rows) > 0

Newest(rows) == SetMax(Timestamps(rows))

\* no row is older than the newest row minus the window
WithinWindow(rows) ==
    \A k \in 1 .. Len(rows) : rows[k].timestamp >= Newest(rows) - window_seconds

SortedByTime(rows) ==
    \A a, b \in 1 .. Len(rows) : a < b => rows[a].timestamp <= rows[b].timestamp

\* the number of times r occurs in rows
Count(rows, r) == Cardinality({ k \in 1 .. Len(rows) : rows[k] = r })

\* rows and other hold the same rows, each the same number of times
SameRows(rows, other) ==
    /\ Len(rows) = Len(other)
    /\ \A r \in Range(rows) : Count(rows, r) = Count(other, r)

DataCall(ops) == last_call.op \in ops /\ ~ last_call.empty

\* C1: after an append_data of a non-empty batch, whatever came before it,
\* no retained row is older than the newest retained row minus
\* window_seconds, and the buffer holds at most max_points rows.
C1_AppendWindowAndCap ==
    DataCall({"append_data"}) =>
        /\ WithinWindow(data_buffer.rows)
        /\ Len(data_buffer.rows) <= max_points

\* an append has left a buffer that is at the cap and spans the whole window
C1_Witness ==
    /\ DataCall({"append_data"})
    /\ Len(data_buffer.rows) = max_points
    /\ \E k \in 1 .. Len(data_buffer.rows) :
         data_buffer.rows[k].timestamp = Newest(data_buffer.rows) - window_seconds

\* C2: after update_data of a non-empty batch the buffer is that batch
\* trimmed: no retained row is older than the newest minus window_seconds
\* and the buffer holds at most max_points rows.
C2_UpdateWindowAndCap ==
    DataCall({"update_data"}) =>
        /\ WithinWindow(data_buffer.rows)
        /\ Len(data_buffer.rows) <= max_points

\* C3: after update_data or append_data of a non-empty batch the rows of
\* the buffer are in non-decreasing timestamp order.
C3_BufferSorted ==
    DataCall({"update_data", "append_data"}) => SortedByTime(data_buffer.rows)

\* the rows of inp that lie in its window
InWindow(inp) ==
    SelectSeq(inp, LAMBDA r : r.timestamp >= Newest(inp) - window_seconds)

\* out is max_points rows of the window of inp, and no row left out of it is
\* newer than a row in it
NewestKept(inp, out) ==
    LET w == InWindow(inp) IN
    Len(w) > max_points =>
        /\ Len(out) = max_points
        /\ \A r \in Range(out) : Count(out, r) <= Count(w, r)
        /\ \A d \in Range(w) : Count(out, d) < Count(w, d) =>
             \A r \in Range(out) : r.timestamp >= d.timestamp

\* C4: when more than max_points rows of the buffer lie in the window, the
\* trim made of it (by update_data for the series, by a reorder) keeps the
\* max_points rows of the window with the greatest timestamps.
C4_TrimKeepsNewest ==
    Populated(data_buffer) =>
        NewestKept(data_buffer.rows, trim_data_by_window(data_buffer).rows)

\* C5: an update_data or append_data of an empty batch changes neither the
\* buffer, nor the option, nor the subplot order, nor the configuration.
C5_EmptyBatchNoOp ==
    [][ (last_call'.op \in {"update_data", "append_data"} /\ last_call'.empty)
          => UNCHANGED << data_buffer, option, subplot_order, config >> ]_vars

\* an empty batch has been appended to a chart that holds data
C5_Witness ==
    /\ last_call.op = "append_data"
    /\ last_call.empty
    /\ Populated(data_buffer)

\* every row of rows lies in the window of the newest of them
AllInWindow(rows) == WithinWindow(rows)

\* C6: appending a non-empty batch to a buffer, when all the rows of both lie
\* in the window and are at most max_points together, leaves exactly the
\* rows of the buffer and of the batch, each as often as it came: rows of
\* equal timestamps are not merged.
C6_AppendConcatenates ==
    \A df \in Batches(data_buffer) :
        ( /\ ~ df_empty(df)
          /\ Populated(data_buffer)
          /\ AllInWindow(data_buffer.rows \o df.rows)
          /\ Len(data_buffer.rows) + Len(df.rows) <= max_points )
        => \A e \in append_data_effects(data_buffer, option, subplot_order, df) :
             /\ Len(e.data_buffer.rows) = Len(data_buffer.rows) + Len(df.rows)
             /\ SameRows(e.data_buffer.rows, data_buffer.rows \o df.rows)

\* an append has left two rows of one timestamp that carry different
\* columns: a batch carries one column, so one of them was in the buffer
\* when the other was appended
C6_Witness ==
    /\ DataCall({"append_data"})
    /\ \E a, b \in 1 .. Len(data_buffer.rows) :
         /\ a # b
         /\ data_buffer.rows[a].timestamp = data_buffer.rows[b].timestamp
         /\ data_buffer.rows[a].vals # data_buffer.rows[b].vals

\* C7: appending to a non-empty buffer a batch whose rows are all older than
\* the newest buffered timestamp minus window_seconds leaves the set of the
\* buffered rows as it was.
C7_LateBatchDropped ==
    \A df \in Batches(data_buffer) :
        ( /\ ~ df_empty(df)
          /\ Populated(data_buffer)
          /\ \A k \in 1 .. Len(df.rows) :
               df.rows[k].timestamp < Newest(data_buffer.rows) - window_seconds )
        => \A e \in append_data_effects(data_buffer, option, subplot_order, df) :
             Range(e.data_buffer.rows) = Range(data_buffer.rows)

\* the series of the signal shown at array position p
SeriesData(p) == option.series[p].data

\* C8: after update_data of a non-empty batch (which the buffer then holds),
\* the series of a signal whose column the batch lacks is empty, and every
\* point of a series has the timestamp of a row of the batch that has a
\* value for the signal.
C8_SeriesFromBatchOnly ==
    DataCall({"update_data"}) =>
        \A p \in 1 .. num_signals :
            LET name == signal_name(subplot_order[p]) IN
            /\ name \notin data_buffer.columns => SeriesData(p) = << >>
            /\ \A k \in 1 .. Len(SeriesData(p)) :
                 \E j \in 1 .. Len(data_buffer.rows) :
                    /\ data_buffer.rows[j].vals[name] # NaN
                    /\ datetime_to_ms(data_buffer.rows[j].timestamp) = SeriesData(p)[k][1]

\* C9: clear_data leaves no buffer and an empty data list in every series,
\* raises nothing, and changes neither window_seconds, nor
\* max_time_gap_seconds, nor the subplot order.
C9_ClearResets ==
    [][ last_call'.op = "clear_data" =>
          /\ data_buffer' = NoneDF
          /\ \A p \in 1 .. num_signals : option'.series[p].data = << >>
          /\ ~ last_call'.raised
          /\ UNCHANGED << window_seconds, max_time_gap_seconds, subplot_order >> ]_vars

\* a chart whose subplots had been reordered has been cleared
C9_Witness ==
    /\ last_call.op = "clear_data"
    /\ data_buffer = NoneDF
    /\ subplot_order # range_order

\* C10: the buffer is absent or holds rows; it comes to hold rows only by an
\* update_data or append_data of a non-empty batch, which always leaves
\* rows; it ceases to hold rows only by clear_data, which always leaves none.
C10_EmptyPopulated ==
    [][ /\ data_buffer'.is_none \/ Populated(data_buffer')
        /\ (~ Populated(data_buffer) /\ Populated(data_buffer'))
             => (last_call'.op \in {"update_data", "append_data"} /\ ~ last_call'.empty)
        /\ (last_call'.op \in {"update_data", "append_data"} /\ ~ last_call'.empty)
             => Populated(data_buffer')
        /\ (Populated(data_buffer) /\ ~ Populated(data_buffer'))
             => last_call'.op = "clear_data"
        /\ last_call'.op = "clear_data" => data_buffer'.is_none ]_vars

\* a populated chart has been reordered and still holds its rows
C10_Witness ==
    /\ last_call.op \in {"set_subplot_order", "move_subplot_up", "move_subplot_down"}
    /\ ~ last_call.raised
    /\ subplot_order # range_order
    /\ Populated(data_buffer)

(***************************************************************************)
(* Properties of the snapshot, the series and the subplot order.           *)
(***************************************************************************)
\* C11: get_buffered_data returns a snapshot: it returns the content of the
\* buffer and changes nothing, and a change the caller makes in place to the
\* table it holds changes neither the buffer (so neither what a later
\* get_buffered_data returns) nor the option, nor any option rebuilt from
\* the buffer later.
C11_SnapshotIsCopy ==
    [][ /\ last_call'.op = "get_buffered_data" =>
              /\ returned'.df = data_buffer
              /\ UNCHANGED << data_buffer, option >>
        /\ last_call'.op = "caller_mutates" =>
              /\ UNCHANGED << data_buffer, option >>
              /\ get_buffered_data_result(data_buffer').df = data_buffer
              /\ \A order \in { o \in OrderInputs : valid_order(o) } :
                     rebuild_option(data_buffer', order) = rebuild_option(data_buffer, order)
      ]_vars

\* the caller has dropped the first row of a snapshot of the buffer that the
\* chart still holds
C11_Witness ==
    /\ last_call.op = "caller_mutates"
    /\ Populated(data_buffer)
    /\ returned.df.columns = data_buffer.columns
    /\ returned.df.rows = Tail(data_buffer.rows)

\* the entries of a series that are points, without its nulls
Points(data) == SelectSeq(data, LAMBDA pt : pt[2] # None)

\* the rows in which the signal called name has a value
RowsWith(rows, name) == SelectSeq(rows, LAMBDA r : r.vals[name] # NaN)

\* the rows of the buffer that the trim retains
Retained == trim_data_by_window(data_buffer).rows

\* C12: while the chart holds data, the points of the series of every signal
\* are, in buffer order, one per retained row in which the signal has a
\* value, at the timestamp of that row, and none for the other rows; the
\* value of a point of a numeric signal is the value of its row.
C12_NullFiltering ==
    Populated(data_buffer) =>
        \A p \in 1 .. num_signals :
            LET i    == subplot_order[p]
                name == signal_name(i)
                rows == RowsWith(Retained, name)
                pts  == Points(SeriesData(p))
            IN  /\ Len(pts) = Len(rows)
                /\ \A k \in 1 .. Len(pts) :
                     /\ pts[k][1] = datetime_to_ms(rows[k].timestamp)
                     /\ signal_config(i).type # "enum" => pts[k][2] = rows[k].vals[name]

\* the frame of the last call of _update_chart_data, when it was not empty
Transformed == last_call.op = "_update_chart_data" /\ ~ last_call.empty

\* the series of the signal of index i, wherever it is displayed
SeriesOf(i) == option.series[order_index(subplot_order, i) + 1]

\* the surviving points of the signal called name in the frame of the last
\* call, and what the segmentation makes of them
Surviving(name) == valid_data(last_call.df.rows, name)
Segmented(name) == gap_data(Surviving(name))

\* out is valid with exactly one null put between every two consecutive
\* points that are more than thr apart, at the timestamp of the later of
\* the two, and no other null
OneNullPerGap(valid, out, thr) ==
    /\ Points(out) = valid
    /\ \A k \in 1 .. Len(out) :
         out[k][2] = None =>
            /\ 1 < k /\ k < Len(out)
            /\ out[k - 1][2] # None /\ out[k + 1][2] # None
            /\ out[k][1] = out[k + 1][1]
            /\ out[k + 1][1] - out[k - 1][1] > thr
    /\ \A k \in 1 .. (Len(out) - 1) :
         (out[k][2] # None /\ out[k + 1][2] # None) => out[k + 1][1] - out[k][1] <= thr

C14_NullBeforePoint ==
    Transformed =>
        \A p \in 1 .. num_signals :
            \A k \in 1 .. Len(SeriesData(p)) :
                SeriesData(p)[k][2] = None =>
                    /\ k < Len(SeriesData(p))
                    /\ SeriesData(p)[k + 1][2] # None
                    /\ SeriesData(p)[k + 1][1] = SeriesData(p)[k][1]

\* the codes of the enum signal of index i that have a label and occur in
\* the frame of the last call
PresentCodes(i) ==
    { Surviving(signal_name(i))[k][2] : k \in 1 .. Len(Surviving(signal_name(i))) }
    \cap DOMAIN signal_config(i).enum_labels

\* C15: after a transform, the category axis of an enum signal lists the
\* labels of the codes present in the frame and no other, in ascending code
\* order, and the points of its series are those of the rows that carry
\* these codes, each with the position of its code in that list as value.
C15_EnumCompaction ==
    Transformed =>
        \A i \in SignalIdx :
            signal_config(i).type = "enum" =>
                LET labels == signal_config(i).enum_labels
                    codes  == SortedSeq(PresentCodes(i))
                    rows   == SelectSeq(Surviving(signal_name(i)),
                                        LAMBDA pt : pt[2] \in DOMAIN labels)
                    pts    == Points(SeriesOf(i).data)
                IN  /\ option.yAxis[i].data = [k \in 1 .. Len(codes) |-> labels[codes[k]]]
                    /\ Len(pts) = Len(rows)
                    /\ \A k \in 1 .. Len(pts) :
                         /\ pts[k][1] = rows[k][1]
                         /\ codes[pts[k][2] + 1] = rows[k][2]

\* the labels of the codes that the signal of index i has in the retained
\* rows of the buffer, in ascending code order
LabelsInWindow(i) ==
    LET labels == signal_config(i).enum_labels
        rows   == RowsWith(Retained, signal_name(i))
        codes  == SortedSeq({ rows[k].vals[signal_name(i)] : k \in 1 .. Len(rows) }
                            \cap DOMAIN labels)
    IN  [k \in 1 .. Len(codes) |-> labels[codes[k]]]

\* C16: after an update_data or append_data of a non-empty batch the
\* category axis of every enum signal lists exactly the labels of the codes
\* the signal has in the window, also when it has none left there.
C16_AxisRecomputed ==
    DataCall({"update_data", "append_data"}) =>
        \A i \in SignalIdx :
            signal_config(i).type = "enum" => option.yAxis[i].data = LabelsInWindow(i)

\* C17: after a transform, the series of every signal that the frame carries
\* has its symbols set by the number n of its entries, nulls included, and
\* by nothing else: hidden with size 4 when n > 150, shown with size 4 when
\* 50 < n <= 150, shown with size 6 when n <= 50.
C17_DensityPolicy ==
    Transformed =>
        \A p \in 1 .. num_signals :
            signal_name(subplot_order[p]) \in last_call.df.columns =>
                LET n == Len(SeriesData(p))
                    s == option.series[p]
                IN  /\ n > 150 => (s.showSymbol = FALSE /\ s.symbolSize = 4)
                    /\ (50 < n /\ n <= 150) => (s.showSymbol = TRUE /\ s.symbolSize = 4)
                    /\ n <= 50 => (s.showSymbol = TRUE /\ s.symbolSize = 6)

\* one frame has given the numeric signal 151 entries, whose symbols are
\* hidden, and the enum signal between 51 and 150, whose symbols are shown
C17_Witness ==
    /\ Transformed
    /\ Len(SeriesOf(1).data) = 151
    /\ SeriesOf(1).showSymbol = FALSE /\ SeriesOf(1).symbolSize = 4
    /\ 50 < Len(SeriesOf(0).data) /\ Len(SeriesOf(0).data) <= 150
    /\ SeriesOf(0).showSymbol = TRUE /\ SeriesOf(0).symbolSize = 4

\* C18: in every reachable state, whatever calls of set_subplot_order,
\* move_subplot_up and move_subplot_down were made and whether they raised,
\* the subplot order holds num_signals indices, each index of
\* 0 .. num_signals - 1 exactly once.
C18_OrderIsBijection ==
    /\ Len(subplot_order) = num_signals
    /\ \A i \in SignalIdx :
         Cardinality({ p \in 1 .. Len(subplot_order) : subplot_order[p] = i }) = 1

\* a call that raised has left an order that is not the order of construction
C18_Witness ==
    /\ last_call.op \in {"set_subplot_order", "move_subplot_up", "move_subplot_down"}
    /\ last_call.raised
    /\ subplot_order # range_order

\* C19: a set_subplot_order that raises, its argument being of a wrong
\* length, holding a duplicate or an index out of range, changes neither the
\* subplot order, nor the option, nor the buffer.
C19_InvalidOrderRejected ==
    [][ (last_call'.op = "set_subplot_order" /\ last_call'.raised)
          => UNCHANGED << subplot_order, option, data_buffer >> ]_vars

\* a set_subplot_order has raised on a chart that holds data and whose
\* subplots had been reordered
C19_Witness ==
    /\ last_call.op = "set_subplot_order"
    /\ last_call.raised
    /\ Populated(data_buffer)
    /\ subplot_order # range_order

\* the series of opt that is tagged with the signal index k
SeriesTagged(opt, k) ==
    opt.series[CHOOSE p \in 1 .. Len(opt.series) : opt.series[p].id = k]

\* a reorder has been made, and has not raised
Reordered(call) ==
    /\ call.op \in {"set_subplot_order", "move_subplot_up", "move_subplot_down"}
    /\ ~ call.raised

\* C20: a reorder of a chart that holds data leaves the buffer as it was
\* and, for every signal index k, leaves one series tagged k, with
\* xAxisIndex = yAxisIndex = k and with the data, showSymbol and symbolSize
\* it had, and leaves xAxis[k] and yAxis[k] on gridIndex k.
C20_ReorderIdentity ==
    [][ (Reordered(last_call') /\ Populated(data_buffer)) =>
          /\ data_buffer' = data_buffer
          /\ \A k \in SignalIdx :
               /\ Cardinality({ p \in 1 .. Len(option'.series) : option'.series[p].id = k }) = 1
               /\ SeriesTagged(option', k).xAxisIndex = k
               /\ SeriesTagged(option', k).yAxisIndex = k
               /\ SeriesTagged(option', k).data = SeriesTagged(option, k).data
               /\ SeriesTagged(option', k).showSymbol = SeriesTagged(option, k).showSymbol
               /\ SeriesTagged(option', k).symbolSize = SeriesTagged(option, k).symbolSize
               /\ option'.xAxis[k].gridIndex = k
               /\ option'.yAxis[k].gridIndex = k
      ]_vars

(***************************************************************************)
(* The incremental path of the chart widget.                               *)
(***************************************************************************)
\* EChartWidget._update_chart_display: the patch it hands to
\* update_series_data, one entry per series of the option
series_patch(opt) ==
    [p \in 1 .. Len(opt.series) |->
        [data       |-> opt.series[p].data,
         showSymbol |-> opt.series[p].showSymbol,
         symbolSize |-> opt.series[p].symbolSize]]

\* RealtimeChartWidget.update_series_data: the chart description `chart`
\* with the patch applied to the series both have
update_series_data(chart, series_data) ==
    [chart EXCEPT !.series =
        [p \in 1 .. Len(chart.series) |->
            IF p <= Len(series_data)
            THEN [chart.series[p] EXCEPT !.data = series_data[p].data,
                                         !.showSymbol = series_data[p].showSymbol,
                                         !.symbolSize = series_data[p].symbolSize]
            ELSE chart.series[p]]]

\* C21: an append_data of a non-empty batch followed by the series patch
\* changes, in the chart description, only the data, showSymbol and
\* symbolSize of the series: the description after the append is the one
\* before it with the patch applied, so that grid, xAxis, yAxis, title,
\* height and dataZoom are what they were.
C21_AppendPatchesSeriesOnly ==
    [][ (last_call'.op = "append_data" /\ ~ last_call'.empty) =>
          /\ option' = update_series_data(option, series_patch(option'))
          /\ option'.grid = option.grid
          /\ option'.xAxis = option.xAxis
          /\ option'.yAxis = option.yAxis
          /\ option'.title = option.title
          /\ option'.height = option.height
          /\ option'.dataZoom = option.dataZoom
      ]_vars

(***************************************************************************)
(* EChartWidget (src/echart_widget.py): a RealtimePlot and the chart that  *)
(* shows it.  Its data calls hand the batch to the RealtimePlot it holds;  *)
(* a reconfiguration replaces that RealtimePlot by a new one.              *)
(***************************************************************************)
\* max_time_gap_seconds of a RealtimePlot built without that argument, as
\* EChartWidget builds it: 1.0 s, in milliseconds
DefaultMaxTimeGapMs == 1000

\* the window_seconds arguments tried for update_config: None, the window
\* the widget was built with, and a longer one
WindowInputs == {None, WindowSeconds, WindowSeconds + 1}

\* chart_widget.realtime_plot when it is the RealtimePlot that the
\* EChartWidget holds
current_plot == [current |-> TRUE]

\* chart_widget.realtime_plot when it is a RealtimePlot that the
\* EChartWidget has replaced: the state that plot is in; its option is
\* read only at the end of a move, which builds it anew
discarded_plot(order, buf, window) ==
    [current |-> FALSE, subplot_order |-> order,
     data_buffer |-> buf, window_seconds |-> window]

\* the option that a replaced RealtimePlot has after a move
discarded_option(plot, order) ==
    IF ~ plot.data_buffer.is_none /\ ~ df_empty(plot.data_buffer)
    THEN chart_data(create_option(order), order,
                    trim_by_window(plot.data_buffer, plot.window_seconds),
                    plot.window_seconds)
    ELSE create_option(order)

\* the frames given to a widget: one row in which every signal has a value,
\* the enum signal the code 1 at 0 s or the code 3 at 1 s
WidgetFrames ==
    { DataFrame(SignalCols \cup {"timestamp"},
                << [timestamp |-> tc[1],
                    vals |-> [c \in SignalCols |->
                                IF c = signal_name(0) THEN tc[2] ELSE 1]] >>) :
        tc \in { << 0, 1 >>, << 1, 3 >> } }

\* EChartWidget.__init__ without initial data: the chart widget is given
\* the option and the RealtimePlot of the widget
InitWidget ==
    /\ window_seconds = WindowSeconds
    /\ max_time_gap_seconds = DefaultMaxTimeGapMs
    /\ subplot_order = range_order
    /\ option = create_option(range_order)
    /\ data_buffer = NoneDF
    /\ last_call = Call("init", NoneDF, FALSE)
    /\ returned = Table(NoneDF, FALSE)
    /\ InitPage
    /\ chart_widget = [realtime_plot |-> current_plot, chart |-> create_option(range_order)]

\* EChartWidget._update_chart_display when the RealtimePlot holds the
\* option opt: the chart widget it leaves
update_chart_display(cw, opt) ==
    [cw EXCEPT !.chart = update_series_data(cw.chart, series_patch(opt))]

\* RealtimeChartWidget.update_chart_option(new_option): the renderer's
\* option is replaced
update_chart_option(cw, new_option) == [cw EXCEPT !.chart = new_option]

\* EChartWidget.update_data
widget_update_data(df) ==
    LET e == update_data_effect(data_buffer, option, subplot_order, df) IN
    /\ data_buffer' = e.data_buffer
    /\ option' = e.option
    /\ chart_widget' = IF e.raised THEN chart_widget
                       ELSE update_chart_display(chart_widget, e.option)
    /\ UNCHANGED << subplot_order, config, page >>
    /\ returned' = IF df_empty(df) THEN returned ELSE rebound(returned)
    /\ last_call' = Call("update_data", df, e.raised)

\* EChartWidget.append_data
widget_append_data(df) ==
    \E e \in append_data_effects(data_buffer, option, subplot_order, df) :
        /\ data_buffer' = e.data_buffer
        /\ option' = e.option
        /\ chart_widget' = IF e.raised THEN chart_widget
                           ELSE update_chart_display(chart_widget, e.option)
        /\ UNCHANGED << subplot_order, config, page >>
        /\ returned' = IF df_empty(df) THEN returned ELSE rebound(returned)
        /\ last_call' = Call("append_data", df, e.raised)

\* the calls of a reconfiguration on the chart widget: update_chart_option
\* with the option of the new RealtimePlot, update_enum_labels without a
\* RealtimePlot, which leaves chart_widget.realtime_plot the plot it was,
\* now a replaced one, and _update_chart_display
chart_after_update_config(cw, new_option) ==
    IF cw = NoChartWidget THEN cw
    ELSE [realtime_plot |->
              IF cw.realtime_plot.current
              THEN discarded_plot(subplot_order, data_buffer, window_seconds)
              ELSE cw.realtime_plot,
          chart |-> new_option]

\* EChartWidget.update_config(window_seconds=new_window) with the new
\* RealtimePlot shown in the order `order`
update_config_in_order(new_window, order) ==
    LET current_data == get_buffered_data_result(data_buffer).df
        window       == IF new_window # None THEN new_window ELSE window_seconds
        restored     == ~ current_data.is_none /\ ~ df_empty(current_data)
        new_option   == IF restored
                        THEN chart_data(create_option(order), order,
                                        trim_by_window(df_copy(current_data), window), window)
                        ELSE create_option(order)
    IN
    /\ window_seconds' = window
    /\ max_time_gap_seconds' = DefaultMaxTimeGapMs
    /\ subplot_order' = order
    /\ data_buffer' = IF restored THEN df_copy(current_data) ELSE NoneDF
    /\ option' = new_option
    /\ returned' = rebound(returned)
    /\ chart_widget' = chart_after_update_config(chart_widget, new_option)
    /\ UNCHANGED page
    /\ last_call' = [op |-> "update_config", empty |-> TRUE, raised |-> FALSE,
                     malformed |-> FALSE, order |-> subplot_order]

\* update_config with the new RealtimePlot keeping the order of the old one
update_config_keeping_order(new_window) ==
    update_config_in_order(new_window, subplot_order)

\* EChartWidget.update_config(window_seconds=new_window), the signal types
\* being left as they are: the buffered data is saved, a new RealtimePlot is
\* built with the new window and, when there was data, update_data is
\* called on it with the saved data.  The plot it replaces was built by the
\* widget too, with the same default max_time_gap_seconds
update_config(new_window) ==
    update_config_in_order(new_window, range_order)

\* empty_series_data of update_signal_types
empty_series_data ==
    [p \in 1 .. num_signals |-> [data |-> << >>, showSymbol |-> FALSE, symbolSize |-> 6]]

\* EChartWidget.update_signal_types with the signal types the widget has: a
\* new RealtimePlot is built and shown without data, and the chart widget
\* is given the new plot by set_realtime_plot
update_signal_types ==
    /\ max_time_gap_seconds' = DefaultMaxTimeGapMs
    /\ subplot_order' = range_order
    /\ data_buffer' = NoneDF
    /\ option' = create_option(range_order)
    /\ returned' = rebound(returned)
    /\ chart_widget' = [realtime_plot |-> current_plot,
                        chart |-> update_series_data(create_option(range_order),
                                                     empty_series_data)]
    /\ UNCHANGED << window_seconds, page >>
    /\ last_call' = [op |-> "update_signal_types", empty |-> TRUE, raised |-> FALSE,
                     malformed |-> FALSE, order |-> subplot_order]

\* the order of the RealtimePlot that the chart widget holds
sidebar_order ==
    IF chart_widget.realtime_plot.current THEN subplot_order
    ELSE chart_widget.realtime_plot.subplot_order

\* RealtimeChartWidget._execute_move on a click of an enabled button of the
\* sidebar, `moved` being the order after the move: the RealtimePlot that
\* the chart widget holds is moved and its option is given to the renderer
execute_move(direction, moved) ==
    LET plot == chart_widget.realtime_plot IN
    /\ moved # sidebar_order
    /\ IF plot.current
       THEN /\ subplot_order' = moved
            /\ option' = rebuild_option(data_buffer, moved)
            /\ chart_widget' = update_chart_option(chart_widget,
                                                   rebuild_option(data_buffer, moved))
       ELSE /\ chart_widget' =
                   [realtime_plot |-> [plot EXCEPT !.subplot_order = moved],
                    chart |-> discarded_option(plot, moved)]
            /\ UNCHANGED << subplot_order, option >>
    /\ UNCHANGED << data_buffer, config, returned, page >>
    /\ last_call' = Call("_execute_move", NoneDF, FALSE)

\* the calls made on a widget
NextWidget ==
    \/ \E df \in WidgetFrames : widget_update_data(df)
    \/ \E df \in WidgetFrames : widget_append_data(df)
    \/ \E index \in SignalIdx : execute_move("up", move_up_order(sidebar_order, index))
    \/ \E index \in SignalIdx : execute_move("down", move_down_order(sidebar_order, index))
    \/ \E new_window \in WindowInputs : update_config(new_window)
    \/ update_signal_types

SpecWidget == InitWidget /\ [][NextWidget]_vars

\* C22: update_config and update_signal_types on a widget that holds data
\* leave the buffer with the rows it held, and the series of the rebuilt
\* chart are those derived from these rows.
C22_ReconfigurePreservesData ==
    [][ (last_call'.op \in {"update_config", "update_signal_types"}
           /\ Populated(data_buffer)) =>
          /\ ~ data_buffer'.is_none
          /\ data_buffer'.rows = data_buffer.rows
          /\ option'.series =
               chart_data(create_option(subplot_order'), subplot_order',
                          trim_by_window(data_buffer, window_seconds'),
                          window_seconds').series
      ]_vars

(***************************************************************************)
(* Batches that are not what update_data and append_data ask for: without  *)
(* the timestamp column, or with a column that is no signal of the chart.  *)
(***************************************************************************)
\* a column that is no signal of the chart
UnknownColumn == "extra"

\* the batches of one row
OneRowBatches == { b \in BatchesUpTo(1) : ~ df_empty(b) }

\* df.drop(columns=['timestamp'])
without_timestamp(df) ==
    [is_none |-> FALSE, columns |-> df.columns \ {"timestamp"},
     rows    |-> [k \in 1 .. Len(df.rows) |-> [df.rows[k] EXCEPT !.timestamp = NaT]]]

\* the batches of one row that lack the timestamp column
MalformedBatches == { without_timestamp(df) : df \in OneRowBatches }

\* df with the column c added, every row reading 1 in it
with_column(df, c) ==
    [is_none |-> FALSE, columns |-> df.columns \cup {c},
     rows    |-> [k \in 1 .. Len(df.rows) |->
                    [df.rows[k] EXCEPT !.vals =
                        [x \in (DOMAIN df.rows[k].vals) \cup {c} |->
                            IF x = c THEN 1 ELSE df.rows[k].vals[x]]]]]

\* df.drop(columns=[c])
without_column(df, c) ==
    [is_none |-> FALSE, columns |-> df.columns \ {c},
     rows    |-> [k \in 1 .. Len(df.rows) |->
                    [df.rows[k] EXCEPT !.vals =
                        [x \in (DOMAIN df.rows[k].vals) \ {c} |-> df.rows[k].vals[x]]]]]

\* the batches that carry the unknown column next to the column of a signal
UnknownBatches == { with_column(df, UnknownColumn) : df \in OneRowBatches }

IrregularBatches == MalformedBatches \cup UnknownBatches

\* the data calls, made with irregular batches of one row; a buffer without
\* timestamps is never trimmed, and is appended to while it holds at most
\* max_points rows
NextIrregular ==
    \/ \E df \in IrregularBatches : update_data(df)
    \/ /\ Len(data_buffer.rows) <= max_points
       /\ \E df \in IrregularBatches : append_data(df)
    \/ clear_data

SpecIrregular == Init /\ [][NextIrregular]_vars

\* C23: an update_data or append_data of a batch that has rows but no
\* timestamp column raises an error and leaves the buffer and the option
\* exactly as they were.
C23_MalformedRejected ==
    [][ (last_call'.op \in {"update_data", "append_data"} /\ last_call'.malformed) =>
          /\ last_call'.raised
          /\ UNCHANGED << data_buffer, option >>
      ]_vars

\* the option and the error that update_data leaves for the batch df
update_data_outcome(df) ==
    LET e == update_data_effect(data_buffer, option, subplot_order, df)
    IN  [option |-> e.option, raised |-> e.raised]

\* the options and errors that append_data can leave for the batch df
append_data_outcomes(df) ==
    { [option |-> e.option, raised |-> e.raised] :
        e \in append_data_effects(data_buffer, option, subplot_order, df) }

\* C24: in every state of the chart, an update_data or append_data of a
\* batch that carries a column which is no signal of the chart raises no
\* error, leaves the option that the same batch without that column leaves,
\* and leaves one series per signal of the chart and no other.
C24_UnknownColumnIgnored ==
    \A df \in UnknownBatches :
        LET plain == without_column(df, UnknownColumn) IN
        /\ ~ update_data_outcome(df).raised
        /\ update_data_outcome(df) = update_data_outcome(plain)
        /\ Len(update_data_outcome(df).option.series) = num_signals
        /\ Len(data_buffer.rows) <= max_points =>
             /\ append_data_outcomes(df) = append_data_outcomes(plain)
             /\ \A o \in append_data_outcomes(df) :
                  /\ ~ o.raised
                  /\ Len(o.option.series) = num_signals
                  /\ { o.option.series[p].id : p \in 1 .. num_signals } = SignalIdx

\* an append has put a row with a reading in the unknown column into the
\* buffer, no error was raised, and the series of a signal has points
C24_Witness ==
    /\ last_call.op = "append_data"
    /\ ~ last_call.raised
    /\ UnknownColumn \in data_buffer.columns
    /\ \E k \in 1 .. Len(data_buffer.rows) :
         /\ UnknownColumn \in DOMAIN data_buffer.rows[k].vals
         /\ data_buffer.rows[k].vals[UnknownColumn] # NaN
    /\ \E p \in 1 .. num_signals : option.series[p].data # << >>


(***************************************************************************)
(* The time axis.                                                          *)
(***************************************************************************)

\* the x axis of signal i shows its line, ticks and labels
axis_shown(opt, i) ==
    opt.xAxis[i].show /\ opt.xAxis[i].axisTick.show /\ opt.xAxis[i].axisLabel.show

\* the x axis of signal i shows none of them
axis_hidden(opt, i) ==
    ~ opt.xAxis[i].show /\ ~ opt.xAxis[i].axisTick.show /\ ~ opt.xAxis[i].axisLabel.show

\* C25: in the option after construction and after every call, reorders
\* included, exactly one x axis is shown, the one of the signal at the last
\* display position subplot_order[-1], and every other x axis is hidden.
C25_OneTimeAxis ==
    /\ Cardinality({ i \in SignalIdx : axis_shown(option, i) }) = 1
    /\ \A i \in SignalIdx :
         IF i = subplot_order[Len(subplot_order)]
         THEN axis_shown(option, i)
         ELSE axis_hidden(option, i)

\* a reorder has put signal 0 at the last display position, and its x axis
\* is the one shown
C25_Witness ==
    /\ last_call.op \in {"set_subplot_order", "move_subplot_up", "move_subplot_down"}
    /\ ~ last_call.raised
    /\ subplot_order # range_order
    /\ subplot_order[Len(subplot_order)] = 0
    /\ axis_shown(option, 0)


(***************************************************************************)
(* The layout of charts of any number of signals: a chart of n signals is  *)
(* constructed and its subplots are moved.  The chart holds no data, so    *)
(* the option is the layout that _create_option builds.                    *)
(***************************************************************************)
\* self.num_signals = min(num_signals, 100)
MaxSignals == 100
\* the charts of up to this many signals are reordered without limit; a
\* larger chart is reordered by one move from the order of construction
MaxFreeSignals == 4

\* list(range(self.num_signals)) for a chart of n signals
range_order_of(n) == [p \in 1 .. n |-> p - 1]

\* the grids, the x axes and the height of the option of a chart of n
\* signals shown in the order `order`
create_layout(n, order) ==
    [grid   |-> [i \in 0 .. (n - 1) |-> create_grid(n, order, i)],
     xAxis  |-> [i \in 0 .. (n - 1) |-> create_x_axis(order, i)],
     height |-> total_height(n)]

\* RealtimePlot(num_signals = n)
InitLayout ==
    /\ \E n \in 1 .. MaxSignals :
         /\ subplot_order = range_order_of(n)
         /\ option = create_layout(n, range_order_of(n))
    /\ window_seconds = WindowSeconds
    /\ max_time_gap_seconds = MaxTimeGapMs
    /\ data_buffer = NoneDF
    /\ last_call = Call("init", NoneDF, FALSE)
    /\ returned = Table(NoneDF, FALSE)
    /\ InitApp

\* the chart may be called once more: a chart of more than MaxFreeSignals
\* signals is called once
may_move ==
    \/ Len(subplot_order) <= MaxFreeSignals
    \/ last_call.op = "init"

\* the indices the moves are called with: every index of the chart, and one
\* below and one above
LayoutIndexInputs == (0 - 1) .. Len(subplot_order)

\* move_subplot_up / move_subplot_down of a chart without data, by the
\* function `moved` of the order and the index; an index outside
\* [0, num_signals) raises ValueError before anything is written
layout_move(op, moved, index) ==
    LET raised == index < 0 \/ index >= Len(subplot_order) IN
    /\ may_move
    /\ subplot_order' = IF raised THEN subplot_order ELSE moved
    /\ option' = IF raised \/ moved = subplot_order THEN option
                 ELSE create_layout(Len(subplot_order), moved)
    /\ last_call' = [op |-> op, empty |-> TRUE, raised |-> raised,
                     malformed |-> FALSE, index |-> index]
    /\ UNCHANGED << data_buffer, config, returned, app >>

layout_move_up(index) ==
    layout_move("move_subplot_up",
                IF index \in Range(subplot_order)
                THEN move_up_order(subplot_order, index) ELSE subplot_order, index)

layout_move_down(index) ==
    layout_move("move_subplot_down",
                IF index \in Range(subplot_order)
                THEN move_down_order(subplot_order, index) ELSE subplot_order, index)

NextLayout ==
    \/ \E index \in LayoutIndexInputs : layout_move_up(index)
    \/ \E index \in LayoutIndexInputs : layout_move_down(index)

SpecLayout == InitLayout /\ [][NextLayout]_vars

\* the grid of the signal shown at display position p (counted from 0)
grid_at(p) == option.grid[subplot_order[p + 1]]

\* C26: for every subplot order, the grid of the signal at display position
\* p has top = 2 + p*(h + 2) + 30 with h the height per subplot, the shade
\* of odd positions and the shade of even positions differ and alternate,
\* the top is the one the signal p has in the order of construction, the
\* tops are pairwise distinct and the grid at p ends before the grid at
\* p + 1 begins.
C26_GridByDisplayPosition ==
    LET n == Len(subplot_order)
        h == chart_height_per_signal(n)
    IN  /\ \A p \in 0 .. (n - 1) :
             /\ grid_at(p).top = 2 + p * (h + 2) + 30
             /\ grid_at(p).top = create_grid(n, range_order_of(n), p).top
             /\ grid_at(p).backgroundColor = IF p % 2 = 1 THEN "#fafafa" ELSE "#f2f2f2"
             /\ p + 1 < n =>
                  /\ grid_at(p + 1).backgroundColor # grid_at(p).backgroundColor
                  /\ grid_at(p).top + grid_at(p).height <= grid_at(p + 1).top
        /\ Cardinality({ option.grid[i].top : i \in 0 .. (n - 1) }) = n

\* a chart of three signals shown in the order 2, 0, 1: signal 2 has the
\* first top and signal 1 the last
C26_Witness ==
    /\ subplot_order = << 2, 0, 1 >>
    /\ last_call.op \in {"move_subplot_up", "move_subplot_down"}
    /\ option.grid[2].top < option.grid[0].top
    /\ option.grid[0].top < option.grid[1].top

\* C27: the chart of n signals, n in 1..100, has the height per subplot
\* max(85, floor((800 - 80 - 2*(n + 1)) / n)), which is 85 when n > 10 and
\* never below 85, and its option has the total height
\* height_per_subplot*n + 2*(n + 1) + 80.
C27_HeightPerSubplot ==
    LET n == Len(subplot_order)
        h == chart_height_per_signal(n)
    IN  /\ n \in 1 .. 100
        /\ h = Max(85, (800 - 80 - 2 * (n + 1)) \div n)
        /\ n > 10 => h = 85
        /\ h >= 85
        /\ option.height = h * n + 2 * (n + 1) + 80
        /\ \A i \in 0 .. (n - 1) :
             option.grid[i].height = IF h >= 100 THEN h - 25 ELSE h - 20

\* the chart of eleven signals, the first count above the threshold, with
\* subplots of 85 and the total height 85*11 + 2*12 + 80
C27_Witness ==
    /\ Len(subplot_order) = 11
    /\ chart_height_per_signal(11) = 85
    /\ option.height = 1039
    /\ option.grid[0].height = 65


(***************************************************************************)
(* main.py: the start, stop and reset buttons and the update timer.  The   *)
(* periodic timers created so far are kept in `timers`, each with its      *)
(* active flag; update_timer is the position of the timer the global       *)
(* refers to, 0 for None.  The generator makes one row per second of the   *)
(* model's time.                                                           *)
(***************************************************************************)
\* the rows the generator makes before the clicks are no longer explored
MaxCounter == 3
\* the timers created before start is no longer explored
MaxTimers == 3

\* int(sample_rate * 0.5): the rows of one batch
PointsPerBatch == {0, 1}

\* row_data of generate_next_data: every signal has a column, with NaN when
\* the signal was not sampled at this time
RowValues == [SignalCols -> BatchValues \cup {NaN}]

\* DataGenerator.generate_batch_data(num_points) when the generator's
\* counter is c: pd.DataFrame() for no points
generate_batch_data(c, num_points, v) ==
    IF num_points = 0 THEN [is_none |-> FALSE, columns |-> {}, rows |-> << >>]
    ELSE DataFrame(SignalCols, << [timestamp |-> c, vals |-> v] >>)

\* a stop that leaves the timer at position k running
deactivate_nothing(ts, k) == ts

\* update_timer.deactivate() on the timer at position k
deactivate(ts, k) == [ts EXCEPT ![k] = FALSE]

\* start_plotting
start_plotting(num_points, v) ==
    /\ Len(timers) < MaxTimers
    /\ last_call' = Call("start_plotting", NoneDF, FALSE)
    /\ UNCHANGED << config, returned, data_history, js_initialized, deferred, js_runs, chart_widget >>
    /\ IF is_running
       THEN UNCHANGED << is_running, update_timer, timers, counter,
                         data_buffer, option, subplot_order >>
       ELSE \* init_components, the initial batch, the new timer
            \E e \in append_data_effects(NoneDF, create_option(range_order), range_order,
                                         generate_batch_data(0, num_points, v)) :
              /\ is_running' = TRUE
              /\ subplot_order' = range_order
              /\ data_buffer' = e.data_buffer
              /\ option' = e.option
              /\ counter' = num_points
              /\ timers' = Append(timers, TRUE)
              /\ update_timer' = Len(timers) + 1

\* update_plot, the callback of the timer at position k
update_plot(k, num_points, v) ==
    /\ k \in DOMAIN timers
    /\ timers[k]
    /\ counter + num_points <= MaxCounter
    /\ last_call' = Call("update_plot", NoneDF, FALSE)
    /\ UNCHANGED << config, returned, subplot_order, is_running, update_timer, timers,
                    data_history, js_initialized, deferred, js_runs, chart_widget >>
    /\ IF ~ is_running
       THEN UNCHANGED << counter, data_buffer, option >>
       ELSE \E e \in append_data_effects(data_buffer, option, subplot_order,
                                         generate_batch_data(counter, num_points, v)) :
              /\ data_buffer' = e.data_buffer
              /\ option' = e.option
              /\ counter' = counter + num_points

\* the timers and the global after stop_plotting
stopped_timers ==
    IF is_running /\ update_timer # 0 THEN deactivate(timers, update_timer) ELSE timers

\* stop_plotting
stop_plotting ==
    /\ last_call' = Call("stop_plotting", NoneDF, FALSE)
    /\ UNCHANGED << config, returned, subplot_order, counter, data_buffer, option,
                    data_history, js_initialized, deferred, js_runs, chart_widget >>
    /\ is_running' = FALSE
    /\ timers' = stopped_timers
    /\ update_timer' = IF is_running THEN 0 ELSE update_timer

\* reset_plotting: stop_plotting, data_generator.reset(), clear_data(),
\* init_components()
reset_plotting ==
    /\ last_call' = Call("reset_plotting", NoneDF, FALSE)
    /\ UNCHANGED << config, returned, data_history, js_initialized, deferred, js_runs, chart_widget >>
    /\ is_running' = FALSE
    /\ timers' = stopped_timers
    /\ update_timer' = IF is_running THEN 0 ELSE update_timer
    /\ counter' = 0
    /\ subplot_order' = range_order
    /\ data_buffer' = NoneDF
    /\ option' = create_option(range_order)

NextMain ==
    \/ \E num_points \in PointsPerBatch, v \in RowValues : start_plotting(num_points, v)
    \/ \E k \in 1 .. MaxTimers, num_points \in PointsPerBatch, v \in RowValues :
         update_plot(k, num_points, v)
    \/ stop_plotting
    \/ reset_plotting

SpecMain == Init /\ [][NextMain]_vars

\* the timers that are active
active_timers == { k \in DOMAIN timers : timers[k] }

\* C28: after any clicks and ticks at most one update timer is active, and
\* one is active exactly when is_running; start while running and stop
\* while stopped change neither the flag, the timers, the generator nor the
\* plot; and a tick in a state where is_running is false appends nothing.
C28_OneTimerWhileRunning ==
    /\ [](/\ Cardinality(active_timers) <= 1
          /\ (active_timers # {}) <=> is_running
          /\ is_running => active_timers = {update_timer})
    /\ [][ /\ (last_call'.op = "start_plotting" /\ is_running) =>
                UNCHANGED << is_running, update_timer, timers, counter, data_buffer, option >>
           /\ (last_call'.op = "stop_plotting" /\ ~ is_running) =>
                UNCHANGED << is_running, update_timer, timers, counter, data_buffer, option >>
           /\ (last_call'.op = "update_plot" /\ ~ is_running) =>
                UNCHANGED << counter, data_buffer, option >>
           /\ (~ is_running /\ ~ is_running') =>
                (data_buffer' = data_buffer \/ data_buffer' = NoneDF) ]_vars

\* stopped after a second start: two timers were created, neither is
\* active, and the plot holds the rows appended while running
C28_Witness ==
    /\ last_call.op = "stop_plotting"
    /\ ~ is_running
    /\ Len(timers) = 2
    /\ active_timers = {}
    /\ update_timer = 0
    /\ ~ data_buffer.is_none
    /\ Len(data_buffer.rows) >= 2


(***************************************************************************)
(* test_dynamic_chart.py: the dynamic chart application.  Its EChartWidget *)
(* is built with defer_init = True; a click on the chart tab starts a      *)
(* once-timer that calls ensure_initialized, which starts a once-timer     *)
(* that calls _do_initialize.  `deferred` counts the once-timers of the    *)
(* two kinds that have not fired yet.  The generator makes one row per     *)
(* second of the model's time, and the window of the widget is             *)
(* window_seconds.                                                         *)
(***************************************************************************)
\* the once-timers of one kind pending at a time before clicks on the tab
\* are no longer explored
MaxDeferred == 2

\* generate_data_point at the time t: a row with a value for every
\* selected signal
generate_data_point(t) == DataFrame(SignalCols, << FrameRow(t, 1) >>)

\* _do_initialize running the initialization again when the flag is set
do_initialize_always(flag, runs) == runs + 1

\* _do_initialize: the number of runs of the JavaScript initialization it
\* leaves, when _js_initialized is `flag` and it has run `runs` times
do_initialize_runs(flag, runs) == IF flag THEN runs ELSE runs + 1

\* start_data_generation; the start button is disabled while running
start_data_generation ==
    /\ ~ is_running
    /\ Len(timers) < MaxTimers
    /\ is_running' = TRUE
    /\ data_history' = NoneDF
    /\ timers' = Append(timers, TRUE)
    /\ update_timer' = Len(timers) + 1
    /\ last_call' = Call("start_data_generation", NoneDF, FALSE)
    /\ UNCHANGED << config, returned, subplot_order, data_buffer, option, counter,
                    js_initialized, deferred, js_runs, chart_widget >>

\* add_data_point, the callback of the timer at position k
add_data_point(k) ==
    /\ k \in DOMAIN timers
    /\ timers[k]
    /\ counter < MaxCounter
    /\ last_call' = Call("add_data_point", NoneDF, FALSE)
    /\ UNCHANGED << config, returned, subplot_order, is_running, update_timer, timers,
                    js_initialized, deferred, js_runs, chart_widget >>
    /\ IF ~ is_running
       THEN UNCHANGED << counter, data_history, data_buffer, option >>
       ELSE LET new_data == generate_data_point(counter) IN
            \E e \in append_data_effects(data_buffer, option, subplot_order, new_data) :
              /\ counter' = counter + 1
              /\ data_history' = IF data_history.is_none \/ df_empty(data_history)
                                 THEN df_copy(new_data)
                                 ELSE pd_concat(data_history, new_data)
              /\ data_buffer' = e.data_buffer
              /\ option' = e.option

\* show_all_history: the buffer and option of the widget it leaves
show_all_history ==
    IF data_history.is_none \/ df_empty(data_history)
    THEN [data_buffer |-> data_buffer, option |-> option]
    ELSE update_data_effect(data_buffer, option, subplot_order, data_history)

\* stop_data_generation; the stop button is enabled only while running
stop_data_generation ==
    /\ is_running
    /\ is_running' = FALSE
    /\ timers' = IF update_timer # 0 THEN deactivate(timers, update_timer) ELSE timers
    /\ update_timer' = 0
    /\ data_buffer' = show_all_history.data_buffer
    /\ option' = show_all_history.option
    /\ last_call' = Call("stop_data_generation", NoneDF, FALSE)
    /\ UNCHANGED << config, returned, subplot_order, counter, data_history,
                    js_initialized, deferred, js_runs, chart_widget >>

\* recreate_chart on a change of the selection, whose checkboxes are
\* disabled while running: update_signal_types gives the widget a new
\* RealtimePlot and the history is dropped
recreate_chart ==
    /\ ~ is_running
    /\ data_buffer' = NoneDF
    /\ option' = create_option(range_order)
    /\ subplot_order' = range_order
    /\ data_history' = NoneDF
    /\ last_call' = Call("recreate_chart", NoneDF, FALSE)
    /\ UNCHANGED << config, returned, is_running, update_timer, timers, counter,
                    js_initialized, deferred, js_runs, chart_widget >>

\* on_chart_tab_click: a once-timer that will call ensure_initialized
on_chart_tab_click ==
    /\ deferred.tab < MaxDeferred
    /\ deferred' = [deferred EXCEPT !.tab = @ + 1]
    /\ last_call' = Call("on_chart_tab_click", NoneDF, FALSE)
    /\ UNCHANGED << config, returned, subplot_order, data_buffer, option, is_running,
                    update_timer, timers, counter, data_history, js_initialized, js_runs, chart_widget >>

\* a once-timer of the tab fires: ensure_initialized
ensure_initialized ==
    /\ deferred.tab > 0
    /\ deferred.init < MaxDeferred
    /\ deferred' = [tab  |-> deferred.tab - 1,
                    init |-> IF ~ js_initialized THEN deferred.init + 1 ELSE deferred.init]
    /\ last_call' = Call("ensure_initialized", NoneDF, FALSE)
    /\ UNCHANGED << config, returned, subplot_order, data_buffer, option, is_running,
                    update_timer, timers, counter, data_history, js_initialized, js_runs, chart_widget >>

\* a once-timer of ensure_initialized fires: _do_initialize
do_initialize ==
    /\ deferred.init > 0
    /\ deferred' = [deferred EXCEPT !.init = @ - 1]
    /\ js_runs' = do_initialize_runs(js_initialized, js_runs)
    /\ js_initialized' = TRUE
    /\ last_call' = Call("_do_initialize", NoneDF, FALSE)
    /\ UNCHANGED << config, returned, subplot_order, data_buffer, option, is_running,
                    update_timer, timers, counter, data_history,
                    chart_widget >>

NextApp ==
    \/ start_data_generation
    \/ \E k \in 1 .. MaxTimers : add_data_point(k)
    \/ stop_data_generation
    \/ recreate_chart
    \/ on_chart_tab_click
    \/ ensure_initialized
    \/ do_initialize

SpecApp == Init /\ [][NextApp]_vars

\* C29: however often ensure_initialized is called, also several times
\* before the first of its timers fires, the JavaScript initialization of
\* _do_initialize has run at most once, and it has run exactly when the
\* flag _js_initialized is set.
C29_InitializedAtMostOnce ==
    /\ js_runs <= 1
    /\ js_initialized <=> (js_runs = 1)

\* ensure_initialized was called twice before the first of its timers
\* fired: _do_initialize has run the initialization once and the second
\* timer is still to fire
C29_Witness ==
    /\ last_call.op = "_do_initialize"
    /\ js_initialized
    /\ js_runs = 1
    /\ deferred.init = 1

\* the times, in milliseconds, of the points of the series at position p
series_times(p) ==
    { option.series[p].data[j][1] : j \in 1 .. Len(option.series[p].data) }

\* C30: while the application runs, the points of every series lie within
\* one window of each other; when stop has been handled, every row of
\* data_history has a point in every series.
C30_StopShowsAllHistory ==
    /\ is_running =>
         \A p \in 1 .. num_signals : \A a, b \in series_times(p) :
             a - b <= datetime_to_ms(window_seconds)
    /\ (last_call.op = "stop_data_generation" /\ ~ data_history.is_none) =>
         \A p \in 1 .. num_signals : \A k \in 1 .. Len(data_history.rows) :
             datetime_to_ms(data_history.rows[k].timestamp) \in series_times(p)


(***************************************************************************)
(* test_chart.py: the static chart test page.  Its own EChartWidget is     *)
(* built with the initial frame; start creates a timer whose callback      *)
(* add_data_once appends a batch per tick.  `counter` is counter[0],       *)
(* update_timer is `timer`, is_running holds while the start button is     *)
(* disabled and the stop button enabled, and each timer of `timers` is     *)
(* kept with its active flag and the number of batches its callback has    *)
(* appended.  A row of the model stands for 100 ms of the page's data.     *)
(***************************************************************************)
\* if counter[0] >= 10
MaxAddCount == 10
\* generate_new_batch(num_points=10)
BatchPoints == 10
\* the presses of start before start is no longer explored
MaxPresses == 2
\* the batches one timer appends before its ticks are no longer explored
MaxAppended == 12

\* create_test_data, two rows for its 600
create_test_data == DataFrame(SignalCols, << FrameRow(0, 1), FrameRow(1, 1) >>)

\* self.last_timestamp: the newest timestamp appended or loaded, and the
\* time of the click after clear_data
last_timestamp(buf) ==
    IF buf.is_none \/ df_empty(buf) THEN 0 ELSE SetMax(Timestamps(buf.rows))

\* EChartWidget.generate_new_batch(num_points): rows that continue from
\* last_timestamp
generate_new_batch(last, num_points) ==
    DataFrame(SignalCols, [i \in 1 .. num_points |-> FrameRow(last + i, 1)])

\* test_page: the widget is built with the initial frame
InitTestPage ==
    /\ window_seconds = WindowSeconds
    /\ max_time_gap_seconds = DefaultMaxTimeGapMs
    /\ subplot_order = range_order
    /\ LET e == update_data_effect(NoneDF, create_option(range_order), range_order,
                                   create_test_data)
       IN  data_buffer = e.data_buffer /\ option = e.option
    /\ last_call = Call("init", NoneDF, FALSE)
    /\ returned = Table(NoneDF, FALSE)
    /\ InitApp

\* start_adding; the start button is disabled while a run is under way
start_adding ==
    /\ ~ is_running
    /\ Len(timers) < MaxPresses
    /\ counter' = 0
    /\ is_running' = TRUE
    /\ timers' = Append(timers, [active |-> TRUE, batches |-> 0])
    /\ update_timer' = Len(timers) + 1
    /\ last_call' = Call("start_adding", NoneDF, FALSE)
    /\ UNCHANGED << config, returned, subplot_order, data_buffer, option,
                    data_history, js_initialized, deferred, js_runs, chart_widget >>

\* add_data_once, the callback of the timer at position k
add_data_once(k) ==
    /\ k \in DOMAIN timers
    /\ timers[k].active
    /\ timers[k].batches < MaxAppended
    /\ UNCHANGED << config, returned, subplot_order, update_timer,
                    data_history, js_initialized, deferred, js_runs, chart_widget >>
    /\ IF counter >= MaxAddCount
       THEN /\ timers' = IF update_timer # 0
                         THEN [timers EXCEPT ![update_timer].active = FALSE]
                         ELSE timers
            /\ is_running' = FALSE
            /\ last_call' = Call("add_data_once", NoneDF, FALSE)
            /\ UNCHANGED << counter, data_buffer, option >>
       ELSE LET new_batch == generate_new_batch(last_timestamp(data_buffer), BatchPoints) IN
            \E e \in append_data_effects(data_buffer, option, subplot_order, new_batch) :
              /\ data_buffer' = e.data_buffer
              /\ option' = e.option
              /\ counter' = counter + 1
              /\ timers' = [timers EXCEPT ![k].batches = @ + 1]
              /\ last_call' = [op |-> "add_data_once", empty |-> df_empty(new_batch),
                                raised |-> e.raised, malformed |-> FALSE,
                                rows |-> Len(new_batch.rows)]
              /\ UNCHANGED is_running

\* stop_adding; the stop button is enabled only during a run
stop_adding ==
    /\ is_running
    /\ timers' = IF update_timer # 0
                 THEN [timers EXCEPT ![update_timer].active = FALSE]
                 ELSE timers
    /\ is_running' = FALSE
    /\ last_call' = Call("stop_adding", NoneDF, FALSE)
    /\ UNCHANGED << config, returned, subplot_order, data_buffer, option, counter,
                    update_timer, data_history, js_initialized, deferred, js_runs, chart_widget >>

\* clear_data of the page: the widget is cleared and the counter reset
page_clear_data ==
    /\ data_buffer' = NoneDF
    /\ option' = clear_series(option)
    /\ counter' = 0
    /\ last_call' = Call("clear_data", NoneDF, FALSE)
    /\ UNCHANGED << config, returned, subplot_order, is_running, update_timer, timers,
                    data_history, js_initialized, deferred, js_runs, chart_widget >>

\* reset_data of the page: the initial frame is loaded and the counter reset
page_reset_data ==
    /\ LET e == update_data_effect(data_buffer, option, subplot_order, create_test_data)
       IN  data_buffer' = e.data_buffer /\ option' = e.option
    /\ counter' = 0
    /\ last_call' = Call("reset_data", create_test_data, FALSE)
    /\ UNCHANGED << config, returned, subplot_order, is_running, update_timer, timers,
                    data_history, js_initialized, deferred, js_runs, chart_widget >>

NextTestPage ==
    \/ start_adding
    \/ \E k \in 1 .. MaxPresses : add_data_once(k)
    \/ stop_adding
    \/ page_clear_data
    \/ page_reset_data
    \/ update_config(WindowSeconds + 1)

SpecTestPage == InitTestPage /\ [][NextTestPage]_vars

\* C31: the batch counter never exceeds 10, the callback of the timer of
\* one press of start has appended at most 10 batches, each of 10 rows, and
\* a timer that stop or the eleventh tick has deactivated appends nothing
\* (only the timer of the run under way is active).
C31_TenBatchesPerStart ==
    /\ counter <= 10
    /\ \A k \in DOMAIN timers : timers[k].batches <= 10
    /\ \A k \in DOMAIN timers : timers[k].active => (is_running /\ k = update_timer)
    /\ (last_call.op = "add_data_once" /\ ~ last_call.empty) => last_call.rows = 10


(***************************************************************************)
(* The values of an enum series against its category axis.                 *)
(***************************************************************************)
\* the code that the signal called name has in the frame of the last call
\* at the time ms (milliseconds), NaN when the frame has no such row
original_code(name, ms) ==
    LET rows == SelectSeq(last_call.df.rows,
                          LAMBDA r : datetime_to_ms(r.timestamp) = ms /\ r.vals[name] # NaN)
    IN  IF Len(rows) = 0 THEN NaN ELSE rows[1].vals[name]

\* C34: after a transform that leaves an enum signal with a point that is
\* not null, every such point of its series has as value an index i with
\* 0 <= i < len(category axis), the category at i is the label of the code
\* the frame has at the time of the point, and the axis has min 0 and max
\* len - 1; also for frames with codes that have no label.
C34_EnumIndexInRange ==
    Transformed =>
        \A i \in SignalIdx :
            (signal_config(i).type = "enum" /\ Len(Points(SeriesOf(i).data)) > 0) =>
                LET labels == signal_config(i).enum_labels
                    cats   == option.yAxis[i].data
                    pts    == Points(SeriesOf(i).data)
                IN  /\ \A k \in 1 .. Len(pts) :
                         /\ pts[k][2] \in 0 .. (Len(cats) - 1)
                         /\ original_code(signal_name(i), pts[k][1]) \in DOMAIN labels
                         /\ cats[pts[k][2] + 1] = labels[original_code(signal_name(i), pts[k][1])]
                    /\ option.yAxis[i].has_min_max
                    /\ option.yAxis[i].min = 0
                    /\ option.yAxis[i].max = Len(cats) - 1


(***************************************************************************)
(* The zoom state at the resolution of the clock.  In the definitions of   *)
(* this section every time is a whole number of microseconds, the          *)
(* resolution of datetime and timedelta: the timestamps of the rows, and   *)
(* window_seconds, which holds timedelta(seconds=window_seconds).          *)
(***************************************************************************)
MaxZoomRows == 3
UsPerMs == 1000

\* the times of the rows and the windows a chart is built with
ZoomTimes == {0, 500, 1500, 2000}
ZoomWindows == {1000, 1500}

\* datetime_to_ms of a time x >= 0 given in microseconds: int() truncates
\* total_seconds() * 1000
datetime_to_ms_us(x) == x \div UsPerMs

\* valid_data of rows whose timestamps are in microseconds
valid_data_us(rows, name) ==
    LET kept == SelectSeq(rows, LAMBDA r : r.vals[name] # NaN)
    IN  [k \in 1 .. Len(kept) |->
            << datetime_to_ms_us(kept[k].timestamp), kept[k].vals[name] >>]

\* the body of the per-signal loop of _update_chart_data on rows whose
\* timestamps are in microseconds
update_series_us(opt, order, df, p) ==
    LET i    == order[p]
        cfg  == signal_config(i)
        name == signal_name(i)
        data == gap_data(valid_data_us(df.rows, name))
        srt  == sorted_values(data, cfg.enum_labels)
        cur  == IF cfg.type = "enum" /\ Len(data) > 0 /\ Len(srt) > 0
                THEN remapped_data(data, srt) ELSE data
    IN  IF name \in df.columns
        THEN [opt.series[p] EXCEPT !.data = cur,
                                   !.showSymbol = show_symbol(Len(cur)),
                                   !.symbolSize = symbol_size(Len(cur))]
        ELSE opt.series[p]

\* the dataZoom update at the end of _update_chart_data: window_ms is the
\* float window_seconds * 1000, here window / UsPerMs, so that
\* total_range > window_ms is total_range * UsPerMs > window; the start
\* percentage is rounded down
update_data_zoom_us(opt, df, window) ==
    LET min_time    == datetime_to_ms_us(df.rows[1].timestamp)
        max_time    == datetime_to_ms_us(df.rows[Len(df.rows)].timestamp)
        total_range == max_time - min_time
    IN  IF total_range > 0 /\ total_range * UsPerMs > window
        THEN [start |-> ((total_range * UsPerMs - window) * 100) \div (total_range * UsPerMs),
              end |-> 100]
        ELSE opt.dataZoom

\* the body of _update_chart_data on a frame whose timestamps are in
\* microseconds
chart_data_us(opt, order, df, window) ==
    IF df_empty(df) \/ key_error(df) THEN opt
    ELSE [opt EXCEPT
            !.series   = [p \in 1 .. Len(order) |-> update_series_us(opt, order, df, p)],
            !.yAxis    = [i \in SignalIdx |-> update_y_axis(opt, df, i)],
            !.dataZoom = update_data_zoom_us(opt, df, window)]

\* the rebuild at the end of a reorder
rebuild_option_us(buf, order) ==
    IF ~ buf.is_none /\ ~ df_empty(buf)
    THEN chart_data_us(create_option(order), order, trim_data_by_window(buf), window_seconds)
    ELSE create_option(order)

\* the frames given to the chart: one row, every signal sampled
ZoomFrames == { DataFrame(SignalCols \cup {"timestamp"}, << FrameRow(t, 1) >>) : t \in ZoomTimes }

InitZoom ==
    /\ window_seconds \in ZoomWindows
    /\ max_time_gap_seconds = MaxTimeGapMs
    /\ subplot_order = range_order
    /\ option = create_option(range_order)
    /\ data_buffer = NoneDF
    /\ last_call = Call("init", NoneDF, FALSE)
    /\ returned = Table(NoneDF, FALSE)
    /\ InitApp

\* update_data
zoom_update_data(df) ==
    /\ data_buffer' = df_copy(df)
    /\ option' = chart_data_us(option, subplot_order, trim_data_by_window(df_copy(df)),
                               window_seconds)
    /\ UNCHANGED << subplot_order, config, app >>
    /\ returned' = rebound(returned)
    /\ last_call' = Call("update_data", df, FALSE)

\* append_data
zoom_append_data(df) ==
    /\ Len(data_buffer.rows) < MaxZoomRows
    /\ \E m \in merged_buffers(data_buffer, df) :
        /\ data_buffer' = trim_data_by_window(m)
        /\ option' = chart_data_us(option, subplot_order, trim_data_by_window(m),
                                   window_seconds)
    /\ UNCHANGED << subplot_order, config, app >>
    /\ returned' = rebound(returned)
    /\ last_call' = Call("append_data", df, FALSE)

\* move_subplot_up and move_subplot_down
zoom_move(op, moved) ==
    /\ moved # subplot_order
    /\ subplot_order' = moved
    /\ option' = rebuild_option_us(data_buffer, moved)
    /\ UNCHANGED << data_buffer, config, returned, app >>
    /\ last_call' = Call(op, NoneDF, FALSE)

NextZoom ==
    \/ \E df \in ZoomFrames : zoom_update_data(df)
    \/ \E df \in ZoomFrames : zoom_append_data(df)
    \/ clear_data
    \/ \E index \in SignalIdx : zoom_move("move_subplot_up", move_up_order(subplot_order, index))
    \/ \E index \in SignalIdx : zoom_move("move_subplot_down", move_down_order(subplot_order, index))

SpecZoom == InitZoom /\ [][NextZoom]_vars

\* C37: no update_data, append_data, clear_data or reorder changes the zoom
\* state: dataZoom start and end are 0 and 100 in every reachable option.
C37_ZoomUntouched == option.dataZoom = [start |-> 0, end |-> 100]


(***************************************************************************)
(* The shape of the option.                                                *)
(***************************************************************************)
\* C39: in every reachable option grid, xAxis, yAxis, series and title have
\* exactly num_signals entries each, with num_signals <= 100; xAxis[i] and
\* yAxis[i] have gridIndex i; the ids of the series are the signal indices
\* 0 .. num_signals - 1, each once, and the series at array position p is
\* the one of signal subplot_order[p].
C39_OptionShape ==
    /\ num_signals <= MaxSignals
    /\ DOMAIN option.grid = SignalIdx
    /\ DOMAIN option.xAxis = SignalIdx
    /\ DOMAIN option.yAxis = SignalIdx
    /\ Len(option.series) = num_signals
    /\ Len(option.title) = num_signals
    /\ \A i \in SignalIdx : option.xAxis[i].gridIndex = i /\ option.yAxis[i].gridIndex = i
    /\ { option.series[p].id : p \in 1 .. Len(option.series) } = SignalIdx
    /\ \A p, q \in 1 .. Len(option.series) :
           option.series[p].id = option.series[q].id => p = q
    /\ \A p \in 1 .. Len(option.series) : option.series[p].id = subplot_order[p]

\* a chart with data whose subplots were reordered
C39_Witness ==
    /\ subplot_order # range_order
    /\ option.series[1].id = subplot_order[1]
    /\ Len(option.series[1].data) > 0
    /\ C39_OptionShape


(***************************************************************************)
(* chart_widget.py: the tooltip.  The option reaches the renderer by       *)
(* setOption with notMerge, so that the seriesIndex of a series is its     *)
(* position in the series array of the option, counted from 0.             *)
(***************************************************************************)
\* enum_labels_json of update_enum_labels: the labels of the enum signals
\* under the number of the signal in signal_types, counted from 1
enum_labels_json ==
    [k \in { i + 1 : i \in { j \in SignalIdx : signal_config(j).type = "enum" } } |->
        signal_config(k - 1).enum_labels]

\* the tooltip formatter on a point of the series with this seriesIndex:
\* the key under which it looks for labels, whether it finds any, and the
\* y axis whose categories it reads
tooltip_signalIndex(seriesIndex) == seriesIndex + 1
tooltip_has_enumLabels(seriesIndex) ==
    tooltip_signalIndex(seriesIndex) \in DOMAIN enum_labels_json
tooltip_enumLabels(seriesIndex) == enum_labels_json[tooltip_signalIndex(seriesIndex)]
tooltip_yAxisIndex(seriesIndex) == seriesIndex

\* C36: for every subplot order the tooltip of the series at array position
\* p takes the enum labels and the category axis of the signal the series
\* stands for, subplot_order[p]; a numeric signal is never shown with the
\* enum labels of another signal.
C36_TooltipOfSeriesSignal ==
    \A p \in 1 .. Len(option.series) :
        LET s == subplot_order[p] IN
        /\ tooltip_has_enumLabels(p - 1) <=> signal_config(s).type = "enum"
        /\ tooltip_has_enumLabels(p - 1) =>
               /\ tooltip_enumLabels(p - 1) = signal_config(s).enum_labels
               /\ tooltip_yAxisIndex(p - 1) = option.series[p].yAxisIndex


(***************************************************************************)
(* The moves of one subplot.                                               *)
(***************************************************************************)
\* the order with the signal at position pos (counted from 1) exchanged
\* with the one at position pos + 1
exchanged(order, pos) ==
    [p \in 1 .. Len(order) |->
        IF p = pos THEN order[pos + 1] ELSE IF p = pos + 1 THEN order[pos] ELSE order[p]]

\* C35: move_subplot_up(k) exchanges signal k with the signal displayed
\* directly above it and move_subplot_down(k) with the one directly below;
\* moving the top signal up or the bottom signal down changes nothing;
\* after move_subplot_up(k) of a signal not at the top, move_subplot_down(k)
\* gives the order back; an index outside [0, num_signals) raises
\* ValueError and leaves the order and the option as they were.
C35_MoveExchangesNeighbours ==
    [][ last_call'.op \in {"move_subplot_up", "move_subplot_down"} =>
        LET k == last_call'.index
            n == Len(subplot_order)
        IN  IF k < 0 \/ k >= n
            THEN last_call'.raised /\ UNCHANGED << subplot_order, option >>
            ELSE LET pos == order_index(subplot_order, k) + 1 IN
                 /\ ~ last_call'.raised
                 /\ IF last_call'.op = "move_subplot_up"
                    THEN IF pos = 1
                         THEN UNCHANGED << subplot_order, option >>
                         ELSE /\ subplot_order' = exchanged(subplot_order, pos - 1)
                              /\ move_down_order(subplot_order', k) = subplot_order
                    ELSE IF pos = n
                         THEN UNCHANGED << subplot_order, option >>
                         ELSE subplot_order' = exchanged(subplot_order, pos)
      ]_vars

\* a signal of a chart of three or more signals was moved up from the
\* bottom, past one neighbour only
C35_Witness ==
    /\ last_call.op = "move_subplot_up"
    /\ ~ last_call.raised
    /\ Len(subplot_order) >= 3
    /\ order_index(subplot_order, last_call.index) = Len(subplot_order) - 2
    /\ subplot_order # range_order_of(Len(subplot_order))


(***************************************************************************)
(* The chart widget of an EChartWidget: the order after a reconfiguration, *)
(* the RealtimePlot the sidebar moves, and the category axes the renderer  *)
(* holds.                                                                  *)
(***************************************************************************)
\* C38: update_config and update_signal_types build the new RealtimePlot
\* with the identity order: whatever the display order was before the call,
\* afterwards get_subplot_order returns [0, 1, ..., n-1].
C38_ReconfigureResetsOrder ==
    last_call.op \in {"update_config", "update_signal_types"} =>
        subplot_order = [p \in 1 .. num_signals |-> p - 1]

\* update_config was called on a widget whose subplots had been reordered
C38_Witness ==
    /\ last_call.op = "update_config"
    /\ last_call.order # range_order
    /\ subplot_order = range_order

\* C33: after construction, update_config, update_signal_types and
\* append_data, the RealtimePlot that the chart widget holds for the moves
\* of the sidebar is the RealtimePlot of the EChartWidget, so that a move
\* of the sidebar never gives the renderer the option of a replaced plot.
C33_SidebarMovesCurrentPlot ==
    /\ chart_widget.realtime_plot.current
    /\ last_call.op = "_execute_move" => chart_widget.chart = option

\* C32: after append_data and update_data, the category axis that the
\* renderer holds for an enum signal is the category axis of the option of
\* the RealtimePlot, against which the values of the series given to the
\* renderer were remapped.
C32_RendererAxisMatchesPlot ==
    (last_call.op \in {"append_data", "update_data"} /\ ~ last_call.raised) =>
        \A i \in SignalIdx :
            signal_config(i).type = "enum" =>
                chart_widget.chart.yAxis[i].data = option.yAxis[i].data

=============================================================================
